---------------------------- MODULE Spec2Model ----------------------------
(***************************************************************************)
(* A model of Stellar2D's Win32 ResourceBuilder (src/window/win/resource.rs)*)
(* and of the Logger it writes to (src/utils/logger.rs), of the            *)
(* WindowManagerBuilder (src/window/win/window_manager.rs) and of the      *)
(* calendar conversion of src/utils/time.rs.                               *)
(*                                                                         *)
(* A text (&str) is a sequence of one-character strings; NUL stands for    *)
(* '\0', FFFD for U+FFFD and BSL for '\'.  An image flag set               *)
(* (IMAGE_FLAGS) is the set of its LR_* bits, so bitor is union and the    *)
(* test (flags & f) == f is membership.  A log message is the format       *)
(* string of the source and the text put in its {}.                        *)
(***************************************************************************)
EXTENDS Integers, Sequences, FiniteSets, TLC

VARIABLES flags, resource_type, dimensions, name, instance, threshold, call, ops,
          manager, classes, dc_requests, built, clock

vars == <<flags, resource_type, dimensions, name, instance, threshold, call, ops,
          manager, classes, dc_requests, built, clock>>

\* what the ResourceBuilder and the Logger do not touch: the
\* WindowManagerBuilder, the window classes the platform has registered, the
\* device contexts asked of the WindowManagerBuilder in the order they were
\* first asked for, the class names and process handles of the builds that
\* returned a WindowManager, the system clock
outside == <<manager, classes, dc_requests, built, clock>>

-----------------------------------------------------------------------------
(* Characters and texts *)

NUL == "NUL"
FFFD == "FFFD"
BSL == "BSL"

LowerAlpha == <<"a","b","c","d","e","f","g","h","i","j","k","l","m",
                "n","o","p","q","r","s","t","u","v","w","x","y","z">>
UpperAlpha == <<"A","B","C","D","E","F","G","H","I","J","K","L","M",
                "N","O","P","Q","R","S","T","U","V","W","X","Y","Z">>

\* char::to_uppercase on the characters the model uses
UpperChar(c) ==
    IF \E i \in 1..26 : LowerAlpha[i] = c
    THEN UpperAlpha[CHOOSE i \in 1..26 : LowerAlpha[i] = c]
    ELSE c

\* str::to_uppercase
ToUppercase(s) == [i \in 1..Len(s) |-> UpperChar(s[i])]

\* str::contains with a text pattern
Contains(s, sub) ==
    \E i \in 1..(Len(s) - Len(sub) + 1) : SubSeq(s, i, i + Len(sub) - 1) = sub

\* str::is_empty
IsEmpty(s) == Len(s) = 0

\* str::ends_with('\0')
EndsWithNul(s) == Len(s) > 0 /\ s[Len(s)] = NUL

\* str::trim_end_matches('\0'): every trailing NUL is removed
RECURSIVE TrimEndNul(_)
TrimEndNul(s) ==
    IF Len(s) > 0 /\ s[Len(s)] = NUL THEN TrimEndNul(SubSeq(s, 1, Len(s) - 1)) ELSE s

IsSeparator(c) == c = BSL \/ c = "/"

\* index of the last character of s satisfying the test, 0 when there is none
LastSeparator(s) ==
    IF \E i \in 1..Len(s) : IsSeparator(s[i])
    THEN CHOOSE i \in 1..Len(s) :
            IsSeparator(s[i]) /\ \A j \in (i+1)..Len(s) : ~IsSeparator(s[j])
    ELSE 0

LastDot(s) ==
    IF \E i \in 1..Len(s) : s[i] = "."
    THEN CHOOSE i \in 1..Len(s) : s[i] = "." /\ \A j \in (i+1)..Len(s) : s[j] # "."
    ELSE 0

\* Path::file_name: the last component of the path (trailing separators are
\* not part of it); <<>> when there is none
RECURSIVE FileName(_)
FileName(p) ==
    IF Len(p) > 0 /\ IsSeparator(p[Len(p)]) THEN FileName(SubSeq(p, 1, Len(p) - 1))
    ELSE SubSeq(p, LastSeparator(p) + 1, Len(p))

\* Path::extension as an Option: the text after the last '.' of the file
\* name; None when there is no file name, no '.', or the only '.' is the
\* first character of the file name
Extension(p) ==
    LET f == FileName(p)
        d == LastDot(f)
    IN  IF Len(f) = 0 \/ f = <<".", ".">> \/ d <= 1
        THEN [some |-> FALSE, text |-> <<>>]
        ELSE [some |-> TRUE, text |-> SubSeq(f, d + 1, Len(f))]


-----------------------------------------------------------------------------
(* Values of the windows crate used by the builder *)

LR_DEFAULTSIZE == "LR_DEFAULTSIZE"
LR_CREATEDIBSECTION == "LR_CREATEDIBSECTION"
LR_SHARED == "LR_SHARED"
LR_LOADTRANSPARENT == "LR_LOADTRANSPARENT"
LR_LOADMAP3DCOLORS == "LR_LOADMAP3DCOLORS"
LR_MONOCHROME == "LR_MONOCHROME"
LR_VGACOLOR == "LR_VGACOLOR"
LR_LOADFROMFILE == "LR_LOADFROMFILE"

IMAGE_BITMAP == "IMAGE_BITMAP"
IMAGE_ICON == "IMAGE_ICON"
IMAGE_CURSOR == "IMAGE_CURSOR"

\* HINSTANCE values: Instance::this(), HINSTANCE::default() (null, the
\* system) and the handle of a named module
ThisInstance == "this"
NullInstance == "null"
ModuleInstance == "module"

\* PCSTR values: a pointer to a text, an integer resource id, or null
TextPtr(t) == [ptr |-> "text", text |-> t, num |-> 0]
IntPtr(n) == [ptr |-> "int", text |-> <<>>, num |-> n]
NullPtr == [ptr |-> "null", text |-> <<>>, num |-> 0]

\* Option<PCSTR>
None == [some |-> FALSE, id |-> NullPtr]
Some(id) == [some |-> TRUE, id |-> id]

\* ResourceName values
File(t) == [variant |-> "File", text |-> t, id |-> 0]
Name(t) == [variant |-> "Name", text |-> t, id |-> 0]
WinOBM(n) == [variant |-> "WinOBM", text |-> <<>>, id |-> n]
WinOIC(n) == [variant |-> "WinOIC", text |-> <<>>, id |-> n]
WinOCR(n) == [variant |-> "WinOCR", text |-> <<>>, id |-> n]
WinIDI(n) == [variant |-> "WinIDI", text |-> <<>>, id |-> n]
WinIDC(n) == [variant |-> "WinIDC", text |-> <<>>, id |-> n]

-----------------------------------------------------------------------------
(* The inputs the model draws from *)

NameTexts ==
    { <<>>,
      <<"t","e","s","t">>,
      <<"T","e","s","t",NUL>>,
      <<"T","B","M","P",NUL>>,
      <<"T","C","U","R",NUL>>,
      <<"T","I","C","O",NUL>>,
      <<"i","c","o","b","m","p",NUL>>,
      <<"C","u","r","I","c","o",NUL>> }

FileTexts ==
    { <<>>,
      <<"f","o","o",".","t","x","t">>,
      <<"f","o","o",NUL>>,
      <<".","b","m","p",NUL>>,
      <<"f","o","o",".","t","x","t",NUL>>,
      <<"f","o","o",".","B","M","P",NUL>>,
      <<"f","o","o",".","b","m","p",NUL>>,
      <<"t",BSL,"s",".","i","c","o",NUL>>,
      <<"t",BSL,"s",".","c","u","r",NUL>>,
      <<"f",FFFD,".","b","m","p",NUL>>,
      <<"f",FFFD,".","t","x","t",NUL>> }

\* 32640 is OCR_SIZE (and IDC_SIZE), 32641 OCR_ICON (and IDC_ICON), 32647
\* OCR_ICOCUR, 32648 OCR_NO (and IDC_NO); 7821 names no system resource
CursorIds == {7821, 32640, 32641, 32647, 32648}
OtherIds == {7821, 32640}

ResourceNames ==
    {Name(t) : t \in NameTexts} \cup {File(t) : t \in FileTexts}
    \cup {WinOCR(n) : n \in CursorIds} \cup {WinIDC(n) : n \in CursorIds}
    \cup {WinOBM(n) : n \in OtherIds} \cup {WinOIC(n) : n \in OtherIds}
    \cup {WinIDI(n) : n \in OtherIds}

Dimensions == {<<0, 0>>, <<10, 10>>, <<0, 10>>, <<-1, 0>>}

\* Logger thresholds: Error only, Error and Warning
Thresholds == {1, 2}

\* the number of operations (setters and terminal calls) a behaviour makes
MaxOps == 5

-----------------------------------------------------------------------------
(* Logger: the leveled sink.  A call of the builder is followed through a *)
(* run record r: the builder (self), the events of the call in order      *)
(* (trace) and the lines the logger wrote to its output (written).        *)

Msg(fmt, arg) == [fmt |-> fmt, arg |-> arg]
NoMsg == Msg("", <<>>)
NoArgs == [instance |-> "", id |-> NullPtr, type |-> "", w |-> 0, h |-> 0, flags |-> {}]
Event(ev, msg, args) == [ev |-> ev, msg |-> msg, args |-> args]

\* a line of the output: "<tag> <time::now_utc()>: <msg>", with the newline
\* of writeln! or without it; the time stamp is left out
Line(tag, msg, nl) == [tag |-> tag, msg |-> msg, nl |-> nl]

\* Logger::logln
logln(r, msg) ==
    [r EXCEPT !.trace = Append(@, Event("logln", msg, NoArgs)),
              !.written = IF r.self.threshold = 3
                          THEN Append(@, Line("[INFO]", msg, TRUE))
                          ELSE @]

\* Logger::log
log(r, msg) ==
    [r EXCEPT !.trace = Append(@, Event("log", msg, NoArgs)),
              !.written = IF r.self.threshold = 3
                          THEN Append(@, Line("[INFO]", msg, FALSE))
                          ELSE @]

\* a variant of wlogln: warnings are written from threshold 3
wlogln_FromInfo(r, msg) ==
    [r EXCEPT !.trace = Append(@, Event("wlogln", msg, NoArgs)),
              !.written = IF r.self.threshold >= 3
                          THEN Append(@, Line("[WARNING]", msg, TRUE))
                          ELSE @]

\* Logger::wlogln
wlogln(r, msg) ==
    [r EXCEPT !.trace = Append(@, Event("wlogln", msg, NoArgs)),
              !.written = IF r.self.threshold >= 2
                          THEN Append(@, Line("[WARNING]", msg, TRUE))
                          ELSE @]

\* Logger::wlog
wlog(r, msg) ==
    [r EXCEPT !.trace = Append(@, Event("wlog", msg, NoArgs)),
              !.written = IF r.self.threshold >= 2
                          THEN Append(@, Line("[WARNING]", msg, FALSE))
                          ELSE @]

\* Logger::elogln
elogln(r, msg) ==
    [r EXCEPT !.trace = Append(@, Event("elogln", msg, NoArgs)),
              !.written = IF r.self.threshold >= 1
                          THEN Append(@, Line("[ERROR]", msg, TRUE))
                          ELSE @]

\* Logger::elog
elog(r, msg) ==
    [r EXCEPT !.trace = Append(@, Event("elog", msg, NoArgs)),
              !.written = IF r.self.threshold >= 1
                          THEN Append(@, Line("[ERROR]", msg, FALSE))
                          ELSE @]

\* entering a function of the builder, or a platform primitive
Enter(r, ev) == [r EXCEPT !.trace = Append(@, Event(ev, NoMsg, NoArgs))]
Invoke(r, ev, args) == [r EXCEPT !.trace = Append(@, Event(ev, NoMsg, args))]

-----------------------------------------------------------------------------
(* ResourceBuilder *)

\* ResourceBuilder::is_flag
is_flag(self, flag) == flag \in self.flags

\* a variant of IsNoOpCursor: the ids its error message names (OCR_NO for
\* OCR_ICON)
IsNoOpCursor_AsMessage(id) == id = 32648 \/ id = 32647 \/ id = 32640

\* the three WinOCR ids name_as_pcstr refuses
IsNoOpCursor(id) == id = 32641 \/ id = 32647 \/ id = 32640

\* a variant of SystemResource: the flags are assigned, not or-ed
SystemResource_Assign(r, type) ==
    [r EXCEPT !.self.resource_type = type,
              !.self.flags = {LR_SHARED},
              !.self.instance = NullInstance]

\* a variant of SystemResource: LR_SHARED is not set
SystemResource_NoShared(r, type) ==
    [r EXCEPT !.self.resource_type = type,
              !.self.instance = NullInstance]

\* the assignments every numeric variant makes before it answers
SystemResource(r, type) ==
    [r EXCEPT !.self.resource_type = type,
              !.self.flags = @ \cup {LR_SHARED},
              !.self.instance = NullInstance]

\* a variant of FileAsPcstr: the file is looked for before the path is
\* searched for U+FFFD
FileAsPcstr_ExistsBeforeUnicode(r, file, exists) ==
    IF ~IsEmpty(file)
    THEN IF EndsWithNul(file)
         THEN LET path == TrimEndNul(file)
                  ext == Extension(path)
                  typed(t) == [r EXCEPT !.self.resource_type = t]
                  rest(r1) ==
                      LET r2 == Enter(r1, IF exists THEN "metadata Ok" ELSE "metadata Err")
                      IN  IF exists
                          THEN IF ~Contains(path, <<FFFD>>)
                               THEN [r |-> r2, res |-> Some(TextPtr(file))]
                               ELSE [r |-> elogln(r2, Msg("ResourceBuilder::name_as_pcstr() File should not have invalid Unicode: {}", path)),
                                     res |-> None]
                          ELSE [r |-> elogln(r2, Msg("ResourceBuilder::name_as_pcstr() File does not exist: {}", path)),
                                res |-> None]
              IN  IF ext.some
                  THEN CASE ext.text = <<"c","u","r">> -> rest(typed(IMAGE_CURSOR))
                         [] ext.text = <<"i","c","o">> -> rest(typed(IMAGE_ICON))
                         [] ext.text = <<"b","m","p">> -> rest(typed(IMAGE_BITMAP))
                         [] OTHER ->
                              [r |-> elogln(r, Msg("ResourceBuilder::name_as_pcstr() File extension is not valid: .{}", ext.text)),
                               res |-> None]
                  ELSE [r |-> elogln(r, Msg("ResourceBuilder::name_as_pcstr() No file extension", <<>>)),
                        res |-> None]
         ELSE [r |-> elogln(r, Msg("ResourceBuilder::name_as_pcstr\\(\\) Filename needs to end in '\\0': {} \\n", file)),
               res |-> None]
    ELSE [r |-> elogln(r, Msg("ResourceBuilder::name_as_pcstr() Filename can not be empty", <<>>)),
          res |-> None]

\* a variant of FileAsPcstr: the kind is assigned when the file resolves
FileAsPcstr_KindOnSuccess(r, file, exists) ==
    IF ~IsEmpty(file)
    THEN IF EndsWithNul(file)
         THEN LET path == TrimEndNul(file)
                  ext == Extension(path)
                  checked(t) ==
                      IF ~Contains(path, <<FFFD>>)
                      THEN LET r2 == Enter(r, IF exists THEN "metadata Ok" ELSE "metadata Err")
                           IN  IF exists
                               THEN [r |-> [r2 EXCEPT !.self.resource_type = t],
                                     res |-> Some(TextPtr(file))]
                               ELSE [r |-> elogln(r2, Msg("ResourceBuilder::name_as_pcstr() File does not exist: {}", path)),
                                     res |-> None]
                      ELSE [r |-> elogln(r, Msg("ResourceBuilder::name_as_pcstr() File should not have invalid Unicode: {}", path)),
                            res |-> None]
              IN  IF ext.some
                  THEN CASE ext.text = <<"c","u","r">> -> checked(IMAGE_CURSOR)
                         [] ext.text = <<"i","c","o">> -> checked(IMAGE_ICON)
                         [] ext.text = <<"b","m","p">> -> checked(IMAGE_BITMAP)
                         [] OTHER ->
                              [r |-> elogln(r, Msg("ResourceBuilder::name_as_pcstr() File extension is not valid: .{}", ext.text)),
                               res |-> None]
                  ELSE [r |-> elogln(r, Msg("ResourceBuilder::name_as_pcstr() No file extension", <<>>)),
                        res |-> None]
         ELSE [r |-> elogln(r, Msg("ResourceBuilder::name_as_pcstr\\(\\) Filename needs to end in '\\0': {} \\n", file)),
               res |-> None]
    ELSE [r |-> elogln(r, Msg("ResourceBuilder::name_as_pcstr() Filename can not be empty", <<>>)),
          res |-> None]

\* the File arm of name_as_pcstr; exists is what metadata(path).is_ok()
\* answers, and the trace records the call of metadata and its answer
FileAsPcstr(r, file, exists) ==
    IF ~IsEmpty(file)
    THEN IF EndsWithNul(file)
         THEN LET path == TrimEndNul(file)
                  ext == Extension(path)
                  typed(t) == [r EXCEPT !.self.resource_type = t]
                  rest(r1) ==
                      IF ~Contains(path, <<FFFD>>)
                      THEN LET r2 == Enter(r1, IF exists THEN "metadata Ok" ELSE "metadata Err")
                           IN  IF exists
                               THEN [r |-> r2, res |-> Some(TextPtr(file))]
                               ELSE [r |-> elogln(r2, Msg("ResourceBuilder::name_as_pcstr() File does not exist: {}", path)),
                                     res |-> None]
                      ELSE [r |-> elogln(r1, Msg("ResourceBuilder::name_as_pcstr() File should not have invalid Unicode: {}", path)),
                            res |-> None]
              IN  IF ext.some
                  THEN CASE ext.text = <<"c","u","r">> -> rest(typed(IMAGE_CURSOR))
                         [] ext.text = <<"i","c","o">> -> rest(typed(IMAGE_ICON))
                         [] ext.text = <<"b","m","p">> -> rest(typed(IMAGE_BITMAP))
                         [] OTHER ->
                              [r |-> elogln(r, Msg("ResourceBuilder::name_as_pcstr() File extension is not valid: .{}", ext.text)),
                               res |-> None]
                  ELSE [r |-> elogln(r, Msg("ResourceBuilder::name_as_pcstr() No file extension", <<>>)),
                        res |-> None]
         ELSE [r |-> elogln(r, Msg("ResourceBuilder::name_as_pcstr\\(\\) Filename needs to end in '\\0': {} \\n", file)),
               res |-> None]
    ELSE [r |-> elogln(r, Msg("ResourceBuilder::name_as_pcstr() Filename can not be empty", <<>>)),
          res |-> None]

\* a variant of WinOCRAsPcstr: the id is refused before anything is assigned
WinOCRAsPcstr_RefuseFirst(r, id) ==
    IF IsNoOpCursor(id)
    THEN [r |-> elogln(r, Msg("ResourceBuilder::name_as_pcstr() OCR_NO, OCR_SIZE, and OCR_ICOCUR are no-op with ResourceName::WinOCR", <<>>)),
          res |-> None]
    ELSE [r |-> SystemResource(r, IMAGE_CURSOR), res |-> Some(IntPtr(id))]

\* the WinOCR arm of name_as_pcstr
WinOCRAsPcstr(r, id) ==
    LET r1 == SystemResource(r, IMAGE_CURSOR)
        res == IF IsNoOpCursor(id) THEN None ELSE Some(IntPtr(id))
    IN  IF ~res.some
        THEN [r |-> elogln(r1, Msg("ResourceBuilder::name_as_pcstr() OCR_NO, OCR_SIZE, and OCR_ICOCUR are no-op with ResourceName::WinOCR", <<>>)),
              res |-> res]
        ELSE [r |-> r1, res |-> res]

\* a variant of NameTextAsPcstr: ICO is looked for first
NameTextAsPcstr_IconFirst(r, text) ==
    IF ~IsEmpty(text)
    THEN IF EndsWithNul(text)
         THEN LET n == ToUppercase(text)
                  typed(t) == [r |-> [r EXCEPT !.self.resource_type = t],
                               res |-> Some(TextPtr(text))]
              IN  IF Contains(n, <<"I","C","O">>) THEN typed(IMAGE_ICON)
                  ELSE IF Contains(n, <<"C","U","R">>) THEN typed(IMAGE_CURSOR)
                  ELSE IF Contains(n, <<"B","M","P">>) THEN typed(IMAGE_BITMAP)
                  ELSE [r |-> elogln(r, Msg("ResourceBuilder::name_as_pcstr() Name is invalid: {}", text)),
                        res |-> None]
         ELSE [r |-> elogln(r, Msg("ResourceBuilder::name_as_pcstr() Name needs to end in '\\0': {}", text)),
               res |-> None]
    ELSE [r |-> elogln(r, Msg("ResourceBuilder::name_as_pcstr() Name can not be empty", <<>>)),
          res |-> None]

\* a variant of NameTextAsPcstr: the kind is looked for before the NUL
NameTextAsPcstr_KindBeforeNul(r, text) ==
    IF ~IsEmpty(text)
    THEN LET n == ToUppercase(text)
             typed(t) ==
                 IF EndsWithNul(text)
                 THEN [r |-> [r EXCEPT !.self.resource_type = t], res |-> Some(TextPtr(text))]
                 ELSE [r |-> elogln(r, Msg("ResourceBuilder::name_as_pcstr() Name needs to end in '\\0': {}", text)),
                       res |-> None]
         IN  IF Contains(n, <<"B","M","P">>) THEN typed(IMAGE_BITMAP)
             ELSE IF Contains(n, <<"C","U","R">>) THEN typed(IMAGE_CURSOR)
             ELSE IF Contains(n, <<"I","C","O">>) THEN typed(IMAGE_ICON)
             ELSE [r |-> elogln(r, Msg("ResourceBuilder::name_as_pcstr() Name is invalid: {}", text)),
                   res |-> None]
    ELSE [r |-> elogln(r, Msg("ResourceBuilder::name_as_pcstr() Name can not be empty", <<>>)),
          res |-> None]

\* the Name arm of name_as_pcstr
NameTextAsPcstr(r, text) ==
    IF ~IsEmpty(text)
    THEN IF EndsWithNul(text)
         THEN LET n == ToUppercase(text)
                  typed(t) == [r |-> [r EXCEPT !.self.resource_type = t],
                               res |-> Some(TextPtr(text))]
              IN  CASE Contains(n, <<"B","M","P">>) -> typed(IMAGE_BITMAP)
                    [] ~Contains(n, <<"B","M","P">>) /\ Contains(n, <<"C","U","R">>) -> typed(IMAGE_CURSOR)
                    [] ~Contains(n, <<"B","M","P">>) /\ ~Contains(n, <<"C","U","R">>)
                         /\ Contains(n, <<"I","C","O">>) -> typed(IMAGE_ICON)
                    [] OTHER ->
                         [r |-> elogln(r, Msg("ResourceBuilder::name_as_pcstr() Name is invalid: {}", text)),
                          res |-> None]
         ELSE [r |-> elogln(r, Msg("ResourceBuilder::name_as_pcstr() Name needs to end in '\\0': {}", text)),
               res |-> None]
    ELSE [r |-> elogln(r, Msg("ResourceBuilder::name_as_pcstr() Name can not be empty", <<>>)),
          res |-> None]

\* ResourceBuilder::name_as_pcstr: the builder after the call and the
\* Option<PCSTR> it returns; the trace records the call and what it returned
name_as_pcstr(r0, exists) ==
    LET r == Enter(r0, "name_as_pcstr")
        nm == r.self.name
        n == CASE nm.variant = "File" -> FileAsPcstr(r, nm.text, exists)
               [] nm.variant = "WinOIC" ->
                    [r |-> SystemResource(r, IMAGE_ICON), res |-> Some(IntPtr(nm.id))]
               [] nm.variant = "WinOCR" -> WinOCRAsPcstr(r, nm.id)
               [] nm.variant = "WinOBM" ->
                    [r |-> SystemResource(r, IMAGE_BITMAP), res |-> Some(IntPtr(nm.id))]
               [] nm.variant = "WinIDC" ->
                    [r |-> SystemResource(r, IMAGE_CURSOR), res |-> Some(IntPtr(nm.id))]
               [] nm.variant = "WinIDI" ->
                    [r |-> SystemResource(r, IMAGE_ICON), res |-> Some(IntPtr(nm.id))]
               [] nm.variant = "Name" -> NameTextAsPcstr(r, nm.text)
    IN  [r |-> Enter(n.r, IF n.res.some THEN "return Some" ELSE "return None"),
         res |-> n.res]

\* a variant of check_dimensions: a negative dimension counts as unset
check_dimensions_NotPositive(r, dimension, dimension_name) ==
    IF dimension <= 0
    THEN IF is_flag(r.self, LR_DEFAULTSIZE)
         THEN wlogln(r, Msg("ResourceBuilder::validator() The default system {} will be used", dimension_name))
         ELSE wlogln(r, Msg("ResourceBuilder::validator() The original image {} will be used", dimension_name))
    ELSE r

\* the closure check_dimensions of validator
check_dimensions(r, dimension, dimension_name) ==
    IF dimension = 0
    THEN IF is_flag(r.self, LR_DEFAULTSIZE)
         THEN wlogln(r, Msg("ResourceBuilder::validator() The default system {} will be used", dimension_name))
         ELSE wlogln(r, Msg("ResourceBuilder::validator() The original image {} will be used", dimension_name))
    ELSE r

\* a variant of CheckDib: the kind is looked at whether or not
\* LR_CREATEDIBSECTION is set
CheckDib_AnyFlags(r) ==
    CASE r.self.resource_type = IMAGE_CURSOR ->
            wlogln(r, Msg("ResourceBuilder::validator() DIB section bitmap is no-op with resource type: 'IMAGE_CURSOR'", <<>>))
      [] r.self.resource_type = IMAGE_ICON ->
            wlogln(r, Msg("ResourceBuilder::validator() DIB section bitmap is no-op with resource type: 'IMAGE_ICON'", <<>>))
      [] OTHER -> r

\* validator, the bitmap check
CheckDib(r) ==
    IF is_flag(r.self, LR_CREATEDIBSECTION)
    THEN CASE r.self.resource_type = IMAGE_CURSOR ->
                wlogln(r, Msg("ResourceBuilder::validator() DIB section bitmap is no-op with resource type: 'IMAGE_CURSOR'", <<>>))
           [] r.self.resource_type = IMAGE_ICON ->
                wlogln(r, Msg("ResourceBuilder::validator() DIB section bitmap is no-op with resource type: 'IMAGE_ICON'", <<>>))
           [] OTHER -> r
    ELSE r

\* a variant of CheckColor: one warning for each of the two color flags
CheckColor_PerFlag(r) ==
    LET warn(r1, flag) ==
            IF is_flag(r1.self, flag)
            THEN wlogln(r1, Msg("ResourceBuilder::validator() 3D and VGA color are no-op when mono is used", <<>>))
            ELSE r1
    IN  IF is_flag(r.self, LR_MONOCHROME)
        THEN warn(warn(r, LR_LOADMAP3DCOLORS), LR_VGACOLOR)
        ELSE r

\* validator, the color check
CheckColor(r) ==
    IF is_flag(r.self, LR_MONOCHROME)
    THEN IF is_flag(r.self, LR_LOADMAP3DCOLORS) \/ is_flag(r.self, LR_VGACOLOR)
         THEN wlogln(r, Msg("ResourceBuilder::validator() 3D and VGA color are no-op when mono is used", <<>>))
         ELSE r
    ELSE r

\* a variant of validator: the color check comes first
validator_ColorFirst(r0) ==
    LET r == Enter(r0, "validator")
        width == r.self.dimensions[1]
        height == r.self.dimensions[2]
    IN  CheckDib(
            check_dimensions(check_dimensions(CheckColor(r), width, <<"w","i","d","t","h">>),
                            height, <<"h","e","i","g","h","t">>))

\* ResourceBuilder::validator
validator(r0) ==
    LET r == Enter(r0, "validator")
        width == r.self.dimensions[1]
        height == r.self.dimensions[2]
    IN  CheckColor(CheckDib(
            check_dimensions(check_dimensions(r, width, <<"w","i","d","t","h">>),
                            height, <<"h","e","i","g","h","t">>)))

\* the arguments load passes to LoadImageA
LoadImageArgs(self, id) ==
    [instance |-> self.instance, id |-> id, type |-> self.resource_type,
     w |-> self.dimensions[1], h |-> self.dimensions[2], flags |-> self.flags]

\* the arguments load_icon and load_cursor pass to LoadIconA and LoadCursorA
LoadHandleArgs(self, id) ==
    [instance |-> self.instance, id |-> id, type |-> "", w |-> 0, h |-> 0, flags |-> {}]

\* a variant of load: a configuration the validator warns about is not loaded
load_WarningsBlock(r0, exists, loaded) ==
    LET r1 == IF r0.self.name.variant = "File"
              THEN [r0 EXCEPT !.self.flags = @ \cup {LR_LOADFROMFILE}]
              ELSE r0
        n == name_as_pcstr(r1, exists)
    IN  IF n.res.some
        THEN LET r2 == validator(n.r)
                 r3 == Invoke(r2, "LoadImageA", LoadImageArgs(r2.self, n.res.id))
             IN  IF r2.trace[Len(r2.trace)].ev = "wlogln"
                 THEN [r |-> r2, result |-> "None"]
                 ELSE IF loaded
                 THEN [r |-> r3, result |-> "Some"]
                 ELSE [r |-> elogln(r3, Msg("ResourceBuilder::load() Failed to create a handle for the resource", <<>>)),
                       result |-> "None"]
        ELSE [r |-> n.r, result |-> "None"]

\* a variant of load: the validator runs once LoadImageA has answered
load_ValidateLast(r0, exists, loaded) ==
    LET r1 == IF r0.self.name.variant = "File"
              THEN [r0 EXCEPT !.self.flags = @ \cup {LR_LOADFROMFILE}]
              ELSE r0
        n == name_as_pcstr(r1, exists)
    IN  IF n.res.some
        THEN LET r2 == Invoke(n.r, "LoadImageA", LoadImageArgs(n.r.self, n.res.id))
                 r3 == validator(r2)
             IN  IF loaded
                 THEN [r |-> r3, result |-> "Some"]
                 ELSE [r |-> elogln(r3, Msg("ResourceBuilder::load() Failed to create a handle for the resource", <<>>)),
                       result |-> "None"]
        ELSE [r |-> n.r, result |-> "None"]

\* a variant of load: LR_LOADFROMFILE is not or-ed into the flags
load_NoLoadFromFile(r0, exists, loaded) ==
    LET n == name_as_pcstr(r0, exists)
    IN  IF n.res.some
        THEN LET r2 == validator(n.r)
                 r3 == Invoke(r2, "LoadImageA", LoadImageArgs(r2.self, n.res.id))
             IN  IF loaded
                 THEN [r |-> r3, result |-> "Some"]
                 ELSE [r |-> elogln(r3, Msg("ResourceBuilder::load() Failed to create a handle for the resource", <<>>)),
                       result |-> "None"]
        ELSE [r |-> n.r, result |-> "None"]

\* a variant of load: the validator runs before the name is resolved
load_ValidateFirst(r0, exists, loaded) ==
    LET r1 == IF r0.self.name.variant = "File"
              THEN [r0 EXCEPT !.self.flags = @ \cup {LR_LOADFROMFILE}]
              ELSE r0
        n == name_as_pcstr(validator(r1), exists)
    IN  IF n.res.some
        THEN LET r3 == Invoke(n.r, "LoadImageA", LoadImageArgs(n.r.self, n.res.id))
             IN  IF loaded
                 THEN [r |-> r3, result |-> "Some"]
                 ELSE [r |-> elogln(r3, Msg("ResourceBuilder::load() Failed to create a handle for the resource", <<>>)),
                       result |-> "None"]
        ELSE [r |-> n.r, result |-> "None"]

\* a variant of load: a Name or a File is looked for in the current process
load_InThisProcess(r0, exists, loaded) ==
    LET r1 == IF r0.self.name.variant = "File"
              THEN [r0 EXCEPT !.self.flags = @ \cup {LR_LOADFROMFILE},
                              !.self.instance = ThisInstance]
              ELSE IF r0.self.name.variant = "Name"
              THEN [r0 EXCEPT !.self.instance = ThisInstance]
              ELSE r0
        n == name_as_pcstr(r1, exists)
    IN  IF n.res.some
        THEN LET r2 == validator(n.r)
                 r3 == Invoke(r2, "LoadImageA", LoadImageArgs(r2.self, n.res.id))
             IN  IF loaded
                 THEN [r |-> r3, result |-> "Some"]
                 ELSE [r |-> elogln(r3, Msg("ResourceBuilder::load() Failed to create a handle for the resource", <<>>)),
                       result |-> "None"]
        ELSE [r |-> n.r, result |-> "None"]

\* ResourceBuilder::load; loaded is whether LoadImageA answers a handle
load(r0, exists, loaded) ==
    LET r1 == IF r0.self.name.variant = "File"
              THEN [r0 EXCEPT !.self.flags = @ \cup {LR_LOADFROMFILE}]
              ELSE r0
        n == name_as_pcstr(r1, exists)
    IN  IF n.res.some
        THEN LET r2 == validator(n.r)
                 r3 == Invoke(r2, "LoadImageA", LoadImageArgs(r2.self, n.res.id))
             IN  IF loaded
                 THEN [r |-> r3, result |-> "Some"]
                 ELSE [r |-> elogln(r3, Msg("ResourceBuilder::load() Failed to create a handle for the resource", <<>>)),
                       result |-> "None"]
        ELSE [r |-> n.r, result |-> "None"]

\* a variant of load_icon: the name is resolved before its variant is looked at
load_icon_ResolveFirst(r0, exists, loaded) ==
    LET n == name_as_pcstr(r0, exists)
        id == IF n.res.some THEN n.res.id ELSE NullPtr
    IN  IF r0.self.name.variant \in {"WinIDI", "WinOIC"}
        THEN LET r1 == Invoke(n.r, "LoadIconA", LoadHandleArgs(n.r.self, id))
             IN  IF loaded
                 THEN [r |-> r1, result |-> "Some"]
                 ELSE [r |-> elogln(r1, Msg("ResourceBuilder::load_icon() Failed to create a handle for the icon", <<>>)),
                       result |-> "None"]
        ELSE [r |-> elogln(n.r, Msg("ResourceBuilder::load_icon() 'ResourceName::WinIDI' or 'ResourceName::WinOIC' should be used", <<>>)),
              result |-> "None"]

\* ResourceBuilder::load_icon; loaded is whether LoadIconA answers a handle
load_icon(r0, exists, loaded) ==
    IF r0.self.name.variant \in {"WinIDI", "WinOIC"}
    THEN LET n == name_as_pcstr(r0, exists)
             id == IF n.res.some THEN n.res.id ELSE NullPtr
             r1 == Invoke(n.r, "LoadIconA", LoadHandleArgs(n.r.self, id))
         IN  IF loaded
             THEN [r |-> r1, result |-> "Some"]
             ELSE [r |-> elogln(r1, Msg("ResourceBuilder::load_icon() Failed to create a handle for the icon", <<>>)),
                   result |-> "None"]
    ELSE [r |-> elogln(r0, Msg("ResourceBuilder::load_icon() 'ResourceName::WinIDI' or 'ResourceName::WinOIC' should be used", <<>>)),
          result |-> "None"]

\* a variant of load_cursor: a name that does not resolve ends the call
load_cursor_Abort(r0, exists, loaded) ==
    IF r0.self.name.variant \in {"WinIDC", "WinOCR"}
    THEN LET n == name_as_pcstr(r0, exists)
         IN  IF n.res.some
             THEN LET r1 == Invoke(n.r, "LoadCursorA", LoadHandleArgs(n.r.self, n.res.id))
                  IN  IF loaded
                      THEN [r |-> r1, result |-> "Some"]
                      ELSE [r |-> elogln(r1, Msg("ResourceBuilder::load_cursor() Failed to create a handle for the cursor", <<>>)),
                            result |-> "None"]
             ELSE [r |-> n.r, result |-> "None"]
    ELSE [r |-> elogln(r0, Msg("ResourceBuilder::load_cursor() 'ResourceName::WinIDC' or 'ResourceName::WinOCR' should be used", <<>>)),
          result |-> "None"]

\* ResourceBuilder::load_cursor; loaded is whether LoadCursorA answers a handle
load_cursor(r0, exists, loaded) ==
    IF r0.self.name.variant \in {"WinIDC", "WinOCR"}
    THEN LET n == name_as_pcstr(r0, exists)
             id == IF n.res.some THEN n.res.id ELSE NullPtr
             r1 == Invoke(n.r, "LoadCursorA", LoadHandleArgs(n.r.self, id))
         IN  IF loaded
             THEN [r |-> r1, result |-> "Some"]
             ELSE [r |-> elogln(r1, Msg("ResourceBuilder::load_cursor() Failed to create a handle for the cursor", <<>>)),
                   result |-> "None"]
    ELSE [r |-> elogln(r0, Msg("ResourceBuilder::load_cursor() 'ResourceName::WinIDC' or 'ResourceName::WinOCR' should be used", <<>>)),
          result |-> "None"]

-----------------------------------------------------------------------------
(* WindowManagerBuilder *)

CS_VREDRAW == "CS_VREDRAW"
CS_HREDRAW == "CS_HREDRAW"
CS_DBLCLKS == "CS_DBLCLKS"
CS_OWNDC == "CS_OWNDC"
CS_CLASSDC == "CS_CLASSDC"
CS_PARENTDC == "CS_PARENTDC"
CS_NOCLOSE == "CS_NOCLOSE"
CS_SAVEBITS == "CS_SAVEBITS"
CS_BYTEALIGNCLIENT == "CS_BYTEALIGNCLIENT"
CS_BYTEALIGNWINDOW == "CS_BYTEALIGNWINDOW"
CS_GLOBALCLASS == "CS_GLOBALCLASS"
CS_DROPSHADOW == "CS_DROPSHADOW"

\* Option<&str>
NoText == [some |-> FALSE, text |-> <<>>]
SomeText(t) == [some |-> TRUE, text |-> t]

\* WindowManagerBuilder::new; lpfnWndProc, hIcon, hCursor and hbrBackground
\* are never written and stay at their defaults
WindowManagerBuilder_new ==
    [style |-> {}, metadata |-> 0, window_metadata |-> 0, instance |-> ThisInstance,
     menuname |-> NoText, classname |-> <<>>]

WindowManagerBuilder_set_instance(self) == [self EXCEPT !.instance = ModuleInstance]
WindowManagerBuilder_set_name(self, n) == [self EXCEPT !.classname = n]
set_menu(self, n) == [self EXCEPT !.menuname = SomeText(n)]
align_byte_client(self) == [self EXCEPT !.style = @ \cup {CS_BYTEALIGNCLIENT}]
align_byte_window(self) == [self EXCEPT !.style = @ \cup {CS_BYTEALIGNWINDOW}]
listen_to_dbclick(self) == [self EXCEPT !.style = @ \cup {CS_DBLCLKS}]
enable_drop_shadow(self) == [self EXCEPT !.style = @ \cup {CS_DROPSHADOW}]
make_global(self) == [self EXCEPT !.style = @ \cup {CS_GLOBALCLASS}]
listen_to_vert(self) == [self EXCEPT !.style = @ \cup {CS_VREDRAW}]
listen_to_hori(self) == [self EXCEPT !.style = @ \cup {CS_HREDRAW}]
disable_close(self) == [self EXCEPT !.style = @ \cup {CS_NOCLOSE}]
save_bitmap(self) == [self EXCEPT !.style = @ \cup {CS_SAVEBITS}]
allocate_window_metadata(self, bytes) == [self EXCEPT !.window_metadata = bytes]
allocate_metadata(self, bytes) == [self EXCEPT !.metadata = bytes]

\* a variant of is_dc_set: only the first of the two classes is looked at
is_dc_set_FirstOnly(self, class1, class2) ==
    LET class1_dc == self.style \cap {class1} # {}
    IN  class1_dc

\* WindowManagerBuilder::is_dc_set; the text it formats is dropped
is_dc_set(self, class1, class2) ==
    LET class1_dc == self.style \cap {class1} # {}
        class2_dc == self.style \cap {class2} # {}
    IN  class1_dc \/ class2_dc

create_single_dc(self) ==
    IF is_dc_set(self, CS_OWNDC, CS_PARENTDC) THEN self
    ELSE [self EXCEPT !.style = @ \cup {CS_CLASSDC}]

create_unique_dc(self) ==
    IF is_dc_set(self, CS_CLASSDC, CS_PARENTDC) THEN self
    ELSE [self EXCEPT !.style = @ \cup {CS_OWNDC}]

create_cache_dc(self) ==
    IF is_dc_set(self, CS_CLASSDC, CS_OWNDC) THEN self
    ELSE [self EXCEPT !.style = @ \cup {CS_PARENTDC}]

\* the text a PCSTR made of text.as_ptr() denotes: the bytes from the start
\* of the text to the first NUL, in the text or in the memory after it
RECURSIVE UpToNul(_)
UpToNul(bytes) ==
    IF Len(bytes) = 0 \/ bytes[1] = NUL THEN <<>>
    ELSE <<bytes[1]>> \o UpToNul(Tail(bytes))

PCSTR_from_raw(text, after) == UpToNul(text \o after \o <<NUL>>)

\* RegisterClassA: the atom is 0 when the process already has a class of
\* this name; otherwise accepted is what the platform answers
RegisterClassA(registered, class, accepted) ==
    IF [hInstance |-> class.hInstance, lpszClassName |-> class.lpszClassName] \in registered
    THEN [atom |-> 0, registered |-> registered]
    ELSE IF accepted
    THEN [atom |-> 1,
          registered |-> registered \cup
              {[hInstance |-> class.hInstance, lpszClassName |-> class.lpszClassName]}]
    ELSE [atom |-> 0, registered |-> registered]

Panic(r, fmt, arg) ==
    [r |-> [r EXCEPT !.trace = Append(@, Event("panic", Msg(fmt, arg), NoArgs))],
     result |-> "panic"]

\* WindowManagerBuilder::build; after_class and after_menu are the bytes in
\* memory after the two texts, accepted is the platform's answer; r.self is
\* the builder and r.classes the classes the platform has registered
build(r, after_class, after_menu, accepted) ==
    IF ~IsEmpty(r.self.classname)
    THEN IF r.self.menuname.some /\ IsEmpty(r.self.menuname.text)
         THEN Panic(r, "[Error] Window Manager Menu name can not be empty", <<>>)
         ELSE LET class ==
                      [lpszClassName |-> PCSTR_from_raw(r.self.classname, after_class),
                       lpszMenuName |->
                           IF r.self.menuname.some
                           THEN SomeText(PCSTR_from_raw(r.self.menuname.text, after_menu))
                           ELSE NoText,
                       hInstance |-> r.self.instance,
                       style |-> r.self.style,
                       cbClsExtra |-> r.self.metadata,
                       cbWndExtra |-> r.self.window_metadata]
                  reg == RegisterClassA(r.classes, class, accepted)
                  r1 == [r EXCEPT !.trace = Append(@, Event("RegisterClassA", NoMsg, class)),
                                  !.classes = reg.registered]
              IN  IF reg.atom # 0
                  THEN [r |-> [r1 EXCEPT !.trace =
                                   Append(@, Event("WindowManager::new", Msg("", r.self.classname), NoArgs))],
                        result |-> "WindowManager"]
                  ELSE Panic(r1, "[Error] Window Manager '{}' already exists", r.self.classname)
    ELSE Panic(r, "[Error] Window Manager name can not be empty", <<>>)

-----------------------------------------------------------------------------
(* utils::time *)

is_leap_year(year) == year % 4 = 0 /\ (year % 100 # 0 \/ year % 400 = 0)

days_in_month(year, month) ==
    CASE month = 1 -> 31
      [] month = 2 -> IF is_leap_year(year) THEN 29 ELSE 28
      [] month = 3 -> 31
      [] month = 4 -> 30
      [] month = 5 -> 31
      [] month = 6 -> 30
      [] month = 7 -> 31
      [] month = 8 -> 31
      [] month = 9 -> 30
      [] month = 10 -> 31
      [] month = 11 -> 30
      [] month = 12 -> 31
      [] OTHER -> 30

\* a variant of YearLoop: a year is taken off when 366 days remain
RECURSIVE YearLoop_Every366(_, _)
YearLoop_Every366(remaining_seconds, year) ==
    IF remaining_seconds >= 366 * 86400
    THEN YearLoop_Every366(remaining_seconds - (IF is_leap_year(year) THEN 366 * 86400 ELSE 365 * 86400),
                           year + 1)
    ELSE [remaining_seconds |-> remaining_seconds, year |-> year]

\* the first loop of now_utc: whole years are taken off the seconds
RECURSIVE YearLoop(_, _)
YearLoop(remaining_seconds, year) ==
    IF remaining_seconds >= (IF is_leap_year(year) THEN 366 * 86400 ELSE 365 * 86400)
    THEN YearLoop(remaining_seconds - (IF is_leap_year(year) THEN 366 * 86400 ELSE 365 * 86400),
                  year + 1)
    ELSE [remaining_seconds |-> remaining_seconds, year |-> year]

\* the second loop of now_utc: whole months are taken off the seconds; asked
\* holds the months days_in_month was asked for, in order
RECURSIVE MonthLoop(_, _, _, _)
MonthLoop(remaining_seconds, year, month, asked) ==
    IF remaining_seconds >= days_in_month(year, month) * 86400
    THEN MonthLoop(remaining_seconds - days_in_month(year, month) * 86400,
                   year, month + 1, Append(asked, month))
    ELSE [remaining_seconds |-> remaining_seconds, month |-> month,
          asked |-> Append(asked, month)]

\* time::now_utc, for a clock that reads total_seconds and millis since the
\* epoch: the numbers it formats and the text "{}-{}-{} {}:{}:{}.{}" of them
now_utc(total_seconds, millis) ==
    LET y == YearLoop(total_seconds, 1970)
        m == MonthLoop(y.remaining_seconds, y.year, 1, <<>>)
        day == (m.remaining_seconds \div 86400) + 1
        remaining_seconds == m.remaining_seconds % 86400
        hour == remaining_seconds \div 3600
        minute == (remaining_seconds % 3600) \div 60
        second == remaining_seconds % 60
    IN  [year |-> y.year, month |-> m.month, day |-> day, hour |-> hour,
         minute |-> minute, second |-> second, millis |-> millis,
         asked |-> m.asked,
         text |-> Msg("{}-{}-{} {}:{}:{}.{}",
                      <<y.year, m.month, day, hour, minute, second, millis>>)]

-----------------------------------------------------------------------------
(* The state machine: one builder, its setters and its terminal calls.    *)
(* call records the terminal call that has just returned: the builder as  *)
(* it was when the call began, the events of the call and its result; a   *)
(* setter starts the next configuration and clears it.                    *)

Self ==
    [flags |-> flags, resource_type |-> resource_type, dimensions |-> dimensions,
     name |-> name, instance |-> instance, threshold |-> threshold]

\* ResourceBuilder::new, with the threshold of the Logger handed to it
new(t) ==
    [flags |-> {}, resource_type |-> IMAGE_BITMAP, dimensions |-> <<0, 0>>,
     name |-> Name(<<>>), instance |-> ThisInstance, threshold |-> t]

NoCall == [op |-> "", before |-> new(0), trace |-> <<>>, written |-> <<>>, result |-> ""]

Run == [self |-> Self, trace |-> <<>>, written |-> <<>>]

set_dimensions(self, w, h) == [self EXCEPT !.dimensions = <<w, h>>]
use_sysdefault(self) == [self EXCEPT !.flags = @ \cup {LR_DEFAULTSIZE}]
use_dib(self) == [self EXCEPT !.flags = @ \cup {LR_CREATEDIBSECTION}]
use_transparent(self) == [self EXCEPT !.flags = @ \cup {LR_LOADTRANSPARENT}]
use_3d(self) == [self EXCEPT !.flags = @ \cup {LR_LOADMAP3DCOLORS}]
\* a variant of use_mono: the flags are assigned, not or-ed
use_mono_Assign(self) == [self EXCEPT !.flags = {LR_MONOCHROME}]
use_mono(self) == [self EXCEPT !.flags = @ \cup {LR_MONOCHROME}]
use_vga(self) == [self EXCEPT !.flags = @ \cup {LR_VGACOLOR}]
\* Instance(module_name).get_instance() panics unless the module is found
set_instance(self) == [self EXCEPT !.instance = ModuleInstance]
set_name(self, n) == [self EXCEPT !.name = n]

Become(self) ==
    /\ flags' = self.flags
    /\ resource_type' = self.resource_type
    /\ dimensions' = self.dimensions
    /\ name' = self.name
    /\ instance' = self.instance
    /\ threshold' = self.threshold

Step == ops < MaxOps /\ ops' = ops + 1

Configure(self) == Step /\ Become(self) /\ call' = NoCall /\ UNCHANGED outside

Return(op, out) ==
    /\ Step
    /\ Become(out.r.self)
    /\ call' = [op |-> op, before |-> Self, trace |-> out.r.trace,
                written |-> out.r.written, result |-> out.result]
    /\ UNCHANGED outside

\* a new WindowManagerBuilder in a process that has registered no window
\* class, and the clock at the epoch
InitRest ==
    /\ manager = WindowManagerBuilder_new
    /\ classes = {}
    /\ dc_requests = <<>>
    /\ built = {}
    /\ clock = 0

Init ==
    \E t \in Thresholds :
        /\ flags = new(t).flags
        /\ resource_type = new(t).resource_type
        /\ dimensions = new(t).dimensions
        /\ name = new(t).name
        /\ instance = new(t).instance
        /\ threshold = new(t).threshold
        /\ call = NoCall
        /\ ops = 0
        /\ InitRest

SetDimensions == \E d \in Dimensions : Configure(set_dimensions(Self, d[1], d[2]))
UseSysdefault == Configure(use_sysdefault(Self))
UseDib == Configure(use_dib(Self))
UseTransparent == Configure(use_transparent(Self))
Use3d == Configure(use_3d(Self))
UseMono == Configure(use_mono(Self))
UseVga == Configure(use_vga(Self))
SetInstance == Configure(set_instance(Self))
SetName == \E n \in ResourceNames : Configure(set_name(Self, n))
Load == \E exists \in BOOLEAN, loaded \in BOOLEAN : Return("load", load(Run, exists, loaded))
LoadIcon == \E exists \in BOOLEAN, loaded \in BOOLEAN : Return("load_icon", load_icon(Run, exists, loaded))
LoadCursor == \E exists \in BOOLEAN, loaded \in BOOLEAN : Return("load_cursor", load_cursor(Run, exists, loaded))

Next ==
    \/ SetDimensions
    \/ UseSysdefault
    \/ UseDib
    \/ UseTransparent
    \/ Use3d
    \/ UseMono
    \/ UseVga
    \/ SetInstance
    \/ SetName
    \/ Load
    \/ LoadIcon
    \/ LoadCursor

Spec == Init /\ [][Next]_vars

-----------------------------------------------------------------------------
(* The Logger by itself: a logger of any threshold (a usize) is handed to  *)
(* a new builder and its six functions are called on it; call records the *)
(* function called and the lines it wrote.                                 *)

\* below Error, the three levels, and above Info
LoggerThresholds == 0..4

LogMessages == {Msg("Test message", <<>>), Msg("", <<>>)}

InitLogger ==
    \E t \in LoggerThresholds :
        /\ flags = new(t).flags
        /\ resource_type = new(t).resource_type
        /\ dimensions = new(t).dimensions
        /\ name = new(t).name
        /\ instance = new(t).instance
        /\ threshold = new(t).threshold
        /\ call = NoCall
        /\ ops = 0
        /\ InitRest

Logln == \E m \in LogMessages : Return("logln", [r |-> logln(Run, m), result |-> "()"])
Log == \E m \in LogMessages : Return("log", [r |-> log(Run, m), result |-> "()"])
Wlogln == \E m \in LogMessages : Return("wlogln", [r |-> wlogln(Run, m), result |-> "()"])
Wlog == \E m \in LogMessages : Return("wlog", [r |-> wlog(Run, m), result |-> "()"])
Elogln == \E m \in LogMessages : Return("elogln", [r |-> elogln(Run, m), result |-> "()"])
Elog == \E m \in LogMessages : Return("elog", [r |-> elog(Run, m), result |-> "()"])

NextLogger ==
    \/ Logln
    \/ Log
    \/ Wlogln
    \/ Wlog
    \/ Elogln
    \/ Elog

SpecLogger == InitLogger /\ [][NextLogger]_vars

-----------------------------------------------------------------------------
(* The builder while it is configured: a new builder and the calls of     *)
(* set_dimensions and of the six flag setters, in any order.              *)

NextSetters ==
    \/ SetDimensions
    \/ UseSysdefault
    \/ UseDib
    \/ UseTransparent
    \/ Use3d
    \/ UseMono
    \/ UseVga

SpecSetters == Init /\ [][NextSetters]_vars

-----------------------------------------------------------------------------
(* The WindowManagerBuilder: a new builder, its setters and build.  A     *)
(* panic of build ends the life of the builder.  call records the build   *)
(* that has just returned or panicked, with the builder and the           *)
(* registered classes as they were when it began.                         *)

ClassNames == {<<>>, <<"w","m">>, <<"w","m",NUL>>, <<"g","l",NUL>>}
MenuNames == {<<>>, <<"m",NUL>>}

\* what may lie in memory between the end of a text and the first NUL
Tails == {<<>>, <<"x">>}

MetadataBytes == {8}

InitManager ==
    /\ flags = new(1).flags
    /\ resource_type = new(1).resource_type
    /\ dimensions = new(1).dimensions
    /\ name = new(1).name
    /\ instance = new(1).instance
    /\ threshold = new(1).threshold
    /\ call = NoCall
    /\ ops = 0
    /\ InitRest

Panicked == call.result = "panic"

ManagerStep ==
    /\ ~Panicked
    /\ Step
    /\ UNCHANGED <<flags, resource_type, dimensions, name, instance, threshold, clock>>

\* a setter that is not one of the create_*_dc
ManagerConfigure(self) ==
    /\ ManagerStep
    /\ manager' = self
    /\ call' = NoCall
    /\ UNCHANGED <<classes, dc_requests, built>>

\* one of the create_*_dc, which asks for the device context dc
ManagerCreateDc(self, dc) ==
    /\ ManagerStep
    /\ manager' = self
    /\ call' = NoCall
    /\ dc_requests' = IF \E i \in 1..Len(dc_requests) : dc_requests[i] = dc
                      THEN dc_requests
                      ELSE Append(dc_requests, dc)
    /\ UNCHANGED built
    /\ UNCHANGED classes

ManagerSetInstance == ManagerConfigure(WindowManagerBuilder_set_instance(manager))
ManagerSetName == \E n \in ClassNames : ManagerConfigure(WindowManagerBuilder_set_name(manager, n))
SetMenu == \E n \in MenuNames : ManagerConfigure(set_menu(manager, n))
AlignByteClient == ManagerConfigure(align_byte_client(manager))
AlignByteWindow == ManagerConfigure(align_byte_window(manager))
ListenToDbclick == ManagerConfigure(listen_to_dbclick(manager))
EnableDropShadow == ManagerConfigure(enable_drop_shadow(manager))
MakeGlobal == ManagerConfigure(make_global(manager))
ListenToVert == ManagerConfigure(listen_to_vert(manager))
ListenToHori == ManagerConfigure(listen_to_hori(manager))
DisableClose == ManagerConfigure(disable_close(manager))
CreateSingleDc == ManagerCreateDc(create_single_dc(manager), CS_CLASSDC)
CreateUniqueDc == ManagerCreateDc(create_unique_dc(manager), CS_OWNDC)
CreateCacheDc == ManagerCreateDc(create_cache_dc(manager), CS_PARENTDC)
SaveBitmap == ManagerConfigure(save_bitmap(manager))
AllocateWindowMetadata ==
    \E b \in MetadataBytes : ManagerConfigure(allocate_window_metadata(manager, b))
AllocateMetadata == \E b \in MetadataBytes : ManagerConfigure(allocate_metadata(manager, b))

Build ==
    \E after_class \in Tails, after_menu \in Tails, accepted \in BOOLEAN :
        LET out == build([self |-> manager, trace |-> <<>>, classes |-> classes],
                         after_class, after_menu, accepted)
        IN  /\ ManagerStep
            /\ manager' = out.r.self
            /\ classes' = out.r.classes
            /\ call' = [op |-> "build", before |-> manager, registered |-> classes,
                        built |-> built,
                        trace |-> out.r.trace, written |-> <<>>, result |-> out.result]
            /\ built' = IF out.result = "WindowManager"
                        THEN built \cup {[classname |-> manager.classname,
                                          instance |-> manager.instance]}
                        ELSE built
            /\ UNCHANGED dc_requests

NextManager ==
    \/ ManagerSetInstance
    \/ ManagerSetName
    \/ SetMenu
    \/ AlignByteClient
    \/ AlignByteWindow
    \/ ListenToDbclick
    \/ EnableDropShadow
    \/ MakeGlobal
    \/ ListenToVert
    \/ ListenToHori
    \/ DisableClose
    \/ CreateSingleDc
    \/ CreateUniqueDc
    \/ CreateCacheDc
    \/ SaveBitmap
    \/ AllocateWindowMetadata
    \/ AllocateMetadata
    \/ Build

SpecManager == InitManager /\ [][NextManager]_vars

-----------------------------------------------------------------------------
(* The clock and now_utc.  The clock starts at the epoch and is advanced   *)
(* by a day, to the last second of the day, to one o'clock past a minute   *)
(* and a second, or by a second over midnight; now_utc reads it.  call     *)
(* records the now_utc that has just returned.                             *)

\* the last day since the epoch the clock reaches
MaxDay == 12000

\* Duration::subsec_millis
Millis == {0, 999}

InitTime ==
    /\ flags = new(1).flags
    /\ resource_type = new(1).resource_type
    /\ dimensions = new(1).dimensions
    /\ name = new(1).name
    /\ instance = new(1).instance
    /\ threshold = new(1).threshold
    /\ call = NoCall
    /\ ops = 0
    /\ InitRest

Advance(seconds) ==
    /\ clock' = clock + seconds
    /\ clock' \div 86400 <= MaxDay
    /\ call' = NoCall
    /\ UNCHANGED <<flags, resource_type, dimensions, name, instance, threshold, ops,
                   manager, classes, dc_requests, built>>

NextDay == Advance(86400)
LastSecond == clock % 86400 = 0 /\ Advance(86399)
PastOne == clock % 86400 = 0 /\ Advance(3661)
NextSecond == clock % 86400 = 86399 /\ Advance(1)

NowUtc ==
    \E millis \in Millis :
        /\ call' = [op |-> "now_utc", total_seconds |-> clock,
                    date |-> now_utc(clock, millis),
                    trace |-> <<>>, written |-> <<>>, result |-> "String"]
        /\ UNCHANGED <<flags, resource_type, dimensions, name, instance, threshold, ops,
                       manager, classes, dc_requests, built, clock>>

NextTime ==
    \/ NextDay
    \/ LastSecond
    \/ PastOne
    \/ NextSecond
    \/ NowUtc

SpecTime == InitTime /\ [][NextTime]_vars

-----------------------------------------------------------------------------
(* Reading the record of the call that has just returned *)

Called(op) == call.op = op
Terminal == call.op \in {"load", "load_icon", "load_cursor"}
Loaders == {"LoadImageA", "LoadIconA", "LoadCursorA"}

Positions(ev) == {i \in 1..Len(call.trace) : call.trace[i].ev = ev}
Ran(ev) == Positions(ev) # {}
LoaderRan == \E ev \in Loaders : Ran(ev)
ResolutionFailed == Ran("return None")
ResolutionSucceeded == Ran("return Some")
ErrorCount == Cardinality(Positions("elogln"))
WarningCount == Cardinality(Positions("wlogln"))

\* the one error the call emitted starts with this text
OnlyError(fmt) ==
    /\ ErrorCount = 1
    /\ \A i \in Positions("elogln") : call.trace[i].msg.fmt = fmt

\* the fields of the builder a call may touch besides the flags
Untouched ==
    /\ flags = call.before.flags
    /\ resource_type = call.before.resource_type
    /\ dimensions = call.before.dimensions
    /\ name = call.before.name
    /\ instance = call.before.instance

ReservedCursorIds == {32640, 32641, 32647}

-----------------------------------------------------------------------------
(* C1 *)

\* C1: in every terminal call (load, load_icon, load_cursor), when
\* name_as_pcstr fails the validator does not run and no platform loader
\* primitive is invoked during that call.
C1_NoLoadAfterFailedResolution ==
    Terminal /\ ResolutionFailed => ~Ran("validator") /\ ~LoaderRan

-----------------------------------------------------------------------------
(* C2 *)

\* C2: a terminal call that returns no result emits exactly one Error-level
\* diagnostic, and a call that returns a result emits none.
C2_OneErrorPerFailedCall ==
    Terminal =>
        /\ call.result = "None" => ErrorCount = 1
        /\ call.result = "Some" => ErrorCount = 0

-----------------------------------------------------------------------------
(* C3 *)

\* a platform primitive was handed the integer id
Forwarded(id) ==
    \E ev \in Loaders : \E i \in Positions(ev) : call.trace[i].args.id = IntPtr(id)

\* C3 as claimed: whichever numeric cursor variant (WinOCR or WinIDC) carries
\* a reserved cursor id, and whichever of load and load_cursor is called, the
\* id resolves to an error and is never forwarded to a platform primitive.
C3_ReservedCursorIdNeverForwarded ==
    /\ call.op \in {"load", "load_cursor"}
    /\ call.before.name.variant \in {"WinOCR", "WinIDC"}
    /\ call.before.name.id \in ReservedCursorIds
    => ResolutionFailed /\ ~Forwarded(call.before.name.id)

\* C3 as amended: a reserved cursor id carried by WinOCR resolves to an
\* error and is never forwarded, in load and in load_cursor; carried by
\* WinIDC it resolves and is forwarded.
C3_ReservedWinOCRNeverForwarded ==
    /\ call.op \in {"load", "load_cursor"} /\ call.before.name.id \in ReservedCursorIds
       /\ call.before.name.variant = "WinOCR"
       => ResolutionFailed /\ ~Forwarded(call.before.name.id)
    /\ call.op \in {"load", "load_cursor"} /\ call.before.name.id \in ReservedCursorIds
       /\ call.before.name.variant = "WinIDC"
       => ResolutionSucceeded /\ Forwarded(call.before.name.id)

C3_Witness ==
    /\ Called("load_cursor")
    /\ call.before.name = WinOCR(32641)
    /\ ResolutionFailed
    /\ Ran("LoadCursorA")

-----------------------------------------------------------------------------
(* C4 *)

-----------------------------------------------------------------------------
(* C5 *)

WrongVariant ==
    \/ Called("load_icon") /\ call.before.name.variant \notin {"WinIDI", "WinOIC"}
    \/ Called("load_cursor") /\ call.before.name.variant \notin {"WinIDC", "WinOCR"}

\* C5: load_icon on a name that is not WinIDI/WinOIC, and load_cursor on a
\* name that is not WinIDC/WinOCR, returns no result, logs the one 'should
\* be used' error, runs neither the resolver nor a platform primitive and
\* leaves flags, kind, dimensions, process handle and name as they were.
C5_WrongVariantRejected ==
    WrongVariant =>
        /\ call.result = "None"
        /\ Len(call.trace) = 1
        /\ Called("load_icon") =>
              OnlyError("ResourceBuilder::load_icon() 'ResourceName::WinIDI' or 'ResourceName::WinOIC' should be used")
        /\ Called("load_cursor") =>
              OnlyError("ResourceBuilder::load_cursor() 'ResourceName::WinIDC' or 'ResourceName::WinOCR' should be used")
        /\ ~Ran("name_as_pcstr")
        /\ ~LoaderRan
        /\ Untouched

\* load_icon refused a cursor id that resolution would have redirected
C5_Witness ==
    /\ Called("load_icon")
    /\ call.before.name = WinIDC(32640)
    /\ call.before.instance = ThisInstance
    /\ call.result = "None"

-----------------------------------------------------------------------------
(* C6 *)

\* the events of the call from the validator's entry to the loader's
ValidatorEvents ==
    {i \in 1..Len(call.trace) :
        \E j \in Positions("validator"), k \in Positions("LoadImageA") : j < i /\ i < k}

\* C6: in load the platform loader is invoked if and only if resolution
\* succeeded, whatever the flags, dimensions and kind and whatever the
\* validator warns about; the validator emits warnings only and changes
\* none of flags, kind, dimensions, name and process handle.
C6_ValidatorNeverBlocks ==
    /\ Called("load") =>
          /\ Ran("LoadImageA") <=> ResolutionSucceeded
          /\ Ran("validator") <=> ResolutionSucceeded
          /\ \A i \in ValidatorEvents : call.trace[i].ev = "wlogln"
          /\ \A k \in Positions("LoadImageA") :
                call.trace[k].args.flags = flags /\ call.trace[k].args.type = resource_type
    /\ LET v == validator(Run)
       IN  /\ v.self = Self
           /\ \A i \in 2..Len(v.trace) : v.trace[i].ev = "wlogln"
           /\ \A i \in 1..Len(v.written) : v.written[i].tag = "[WARNING]"

\* every check of the validator warned and the image was loaded all the same
C6_Witness ==
    /\ Called("load")
    /\ WarningCount = 4
    /\ Ran("LoadImageA")
    /\ call.result = "Some"

-----------------------------------------------------------------------------
(* C7 *)

SettersEnabled ==
    /\ ENABLED SetDimensions /\ ENABLED UseSysdefault /\ ENABLED UseDib
    /\ ENABLED UseTransparent /\ ENABLED Use3d /\ ENABLED UseMono /\ ENABLED UseVga
    /\ ENABLED SetInstance /\ ENABLED SetName

\* each terminal operation answers on the builder as it now is
TerminalsAnswer ==
    \A exists \in BOOLEAN, loaded \in BOOLEAN :
        /\ load(Run, exists, loaded).result \in {"Some", "None"}
        /\ load_icon(Run, exists, loaded).result \in {"Some", "None"}
        /\ load_cursor(Run, exists, loaded).result \in {"Some", "None"}

\* the builder takes every setter and every terminal call
AllEnabled == SettersEnabled /\ TerminalsAnswer

\* C7: after a terminal call, failed or not, dimensions and name are what
\* they were before it, every flag set before it is still set, and every
\* setter and terminal operation can be called on the builder again.
C7_BuilderReusable ==
    Terminal =>
        /\ dimensions = call.before.dimensions
        /\ name = call.before.name
        /\ call.before.flags \subseteq flags
        /\ ops < MaxOps => AllEnabled

\* a terminal call on a configured builder: the option its caller set
\* persists, the call itself extended the flags, and every operation can be
\* called again
C7_Witness ==
    /\ Called("load")
    /\ ops = 4
    /\ LR_CREATEDIBSECTION \in call.before.flags
    /\ LR_SHARED \in flags \ call.before.flags
    /\ AllEnabled

-----------------------------------------------------------------------------
(* C8 *)

\* the call resolved, validated and loaded, in this order
ResolveValidateLoad ==
    \E i \in Positions("return Some"), j \in Positions("validator") :
        \E ev \in Loaders : \E k \in Positions(ev) : i < j /\ j < k

\* the call resolved and loaded with no validation
ResolveLoad ==
    /\ ~Ran("validator")
    /\ \E i \in Positions("return Some") :
          \E ev \in Loaders : \E k \in Positions(ev) : i < k

\* C8 as claimed: in each of load, load_icon and load_cursor a call whose
\* resolution succeeds runs the resolver, then the validator, then the
\* platform loader primitive.
C8_ResolveValidateLoadInEveryCall ==
    Terminal /\ ResolutionSucceeded => ResolveValidateLoad

\* C8 as amended: a load whose resolution succeeds runs the resolver, then
\* the validator, then LoadImageA, once each; a load_icon or load_cursor
\* whose resolution succeeds runs the resolver and then its primitive, and
\* no validator; when the call has returned the builder takes setters and
\* terminal calls again.
C8_PhaseOrder ==
    /\ Called("load") /\ ResolutionSucceeded =>
          /\ ResolveValidateLoad
          /\ Cardinality(Positions("name_as_pcstr")) = 1
          /\ Cardinality(Positions("validator")) = 1
          /\ Cardinality(Positions("LoadImageA")) = 1
          /\ call.trace[1].ev = "name_as_pcstr"
    /\ call.op \in {"load_icon", "load_cursor"} /\ ResolutionSucceeded => ResolveLoad
    /\ Terminal /\ ops < MaxOps => AllEnabled

C8_Witness ==
    /\ Called("load")
    /\ ResolutionSucceeded
    /\ WarningCount = 2
    /\ call.result = "None"

-----------------------------------------------------------------------------
(* C9 *)

HasKindText(t) ==
    \/ Contains(ToUppercase(t), <<"B","M","P">>)
    \/ Contains(ToUppercase(t), <<"C","U","R">>)
    \/ Contains(ToUppercase(t), <<"I","C","O">>)

\* Bitmap before Cursor before Icon
KindByPriority(t) ==
    IF Contains(ToUppercase(t), <<"B","M","P">>) THEN IMAGE_BITMAP
    ELSE IF Contains(ToUppercase(t), <<"C","U","R">>) THEN IMAGE_CURSOR
    ELSE IMAGE_ICON

\* C9: a non-empty Name that ends with NUL and whose upper-cased text
\* contains BMP, CUR or ICO resolves, with no diagnostic, to the kind of the
\* first of BMP, CUR, ICO it contains; the resolution leaves Shared,
\* LoadFromFile and the process handle as they were.
C9_NameKindByPriority ==
    /\ Called("load")
    /\ call.before.name.variant = "Name"
    /\ ~IsEmpty(call.before.name.text)
    /\ EndsWithNul(call.before.name.text)
    /\ HasKindText(call.before.name.text)
    => /\ call.trace[1].ev = "name_as_pcstr"
       /\ call.trace[2].ev = "return Some"
       /\ resource_type = KindByPriority(call.before.name.text)
       /\ \A k \in Positions("LoadImageA") :
             /\ call.trace[k].args.type = KindByPriority(call.before.name.text)
             /\ call.trace[k].args.id = TextPtr(call.before.name.text)
       /\ flags = call.before.flags
       /\ instance = call.before.instance

\* a lower-case text naming two kinds resolved to the first in priority,
\* replacing the kind an earlier call had left
C9_Witness ==
    /\ Called("load")
    /\ call.before.name = Name(<<"i","c","o","b","m","p",NUL>>)
    /\ call.before.resource_type = IMAGE_CURSOR
    /\ resource_type = IMAGE_BITMAP
    /\ call.result = "Some"

-----------------------------------------------------------------------------
(* C10 *)

\* C10: a load whose Name fails resolution reports exactly one error, that
\* of the first failing check (empty, then missing NUL, then no BMP/CUR/ICO);
\* it returns nothing, invokes no loader and leaves flags, kind and process
\* handle as they were.  A builder on which set_name was never called
\* holds the empty Name.
C10_NameErrorsInOrder ==
    LET t == call.before.name.text
    IN  Called("load") /\ call.before.name.variant = "Name" =>
          /\ IsEmpty(t) =>
                ResolutionFailed /\ OnlyError("ResourceBuilder::name_as_pcstr() Name can not be empty")
          /\ ~IsEmpty(t) /\ ~EndsWithNul(t) =>
                ResolutionFailed /\ OnlyError("ResourceBuilder::name_as_pcstr() Name needs to end in '\\0': {}")
          /\ ~IsEmpty(t) /\ EndsWithNul(t) /\ ~HasKindText(t) =>
                ResolutionFailed /\ OnlyError("ResourceBuilder::name_as_pcstr() Name is invalid: {}")
          /\ ResolutionFailed => call.result = "None" /\ ~LoaderRan /\ Untouched
          /\ ops = 1 => IsEmpty(t)

\* load is the first operation on a new builder
C10_Witness ==
    /\ Called("load")
    /\ ops = 1
    /\ call.before = new(threshold)
    /\ call.result = "None"
    /\ OnlyError("ResourceBuilder::name_as_pcstr() Name can not be empty")

-----------------------------------------------------------------------------
(* C11 *)

\* the one error the call emitted is this text with this argument
OnlyErrorMsg(fmt, arg) ==
    /\ ErrorCount = 1
    /\ \A i \in Positions("elogln") : call.trace[i].msg = Msg(fmt, arg)

FileExtensions == {<<"i","c","o">>, <<"c","u","r">>, <<"b","m","p">>}

\* C11: a load whose File fails resolution reports exactly one error, that
\* of the first failing check in the order empty text, missing NUL, no
\* extension, extension not ico/cur/bmp (the message carries the extension),
\* U+FFFD in the path, file does not exist (the message carries the path);
\* in each case load returns nothing and LoadImageA is not invoked.
C11_FileErrorsInOrder ==
    LET t == call.before.name.text
        path == TrimEndNul(t)
        ext == Extension(path)
        terminated == ~IsEmpty(t) /\ EndsWithNul(t)
        typed == terminated /\ ext.some /\ ext.text \in FileExtensions
    IN  Called("load") /\ call.before.name.variant = "File" =>
          /\ IsEmpty(t) =>
                ResolutionFailed /\ OnlyErrorMsg("ResourceBuilder::name_as_pcstr() Filename can not be empty", <<>>)
          /\ ~IsEmpty(t) /\ ~EndsWithNul(t) =>
                ResolutionFailed /\ OnlyErrorMsg("ResourceBuilder::name_as_pcstr\\(\\) Filename needs to end in '\\0': {} \\n", t)
          /\ terminated /\ ~ext.some =>
                ResolutionFailed /\ OnlyErrorMsg("ResourceBuilder::name_as_pcstr() No file extension", <<>>)
          /\ terminated /\ ext.some /\ ext.text \notin FileExtensions =>
                ResolutionFailed /\ OnlyErrorMsg("ResourceBuilder::name_as_pcstr() File extension is not valid: .{}", ext.text)
          /\ typed /\ Contains(path, <<FFFD>>) =>
                ResolutionFailed /\ OnlyErrorMsg("ResourceBuilder::name_as_pcstr() File should not have invalid Unicode: {}", path)
          /\ typed /\ ~Contains(path, <<FFFD>>) =>
                /\ Ran("metadata Ok") \/ Ran("metadata Err")
                /\ Ran("metadata Err") =>
                      ResolutionFailed /\ OnlyErrorMsg("ResourceBuilder::name_as_pcstr() File does not exist: {}", path)
                /\ Ran("metadata Ok") => ResolutionSucceeded
          /\ Ran("metadata Ok") \/ Ran("metadata Err") => typed /\ ~Contains(path, <<FFFD>>)
          /\ ResolutionFailed => call.result = "None" /\ ~LoaderRan /\ ~Ran("validator")

\* a path with U+FFFD and a file that is not there: the error is the one of
\* the earlier check, and metadata was not asked
C11_Witness ==
    /\ Called("load")
    /\ call.before.name = File(<<"f",FFFD,".","b","m","p",NUL>>)
    /\ OnlyErrorMsg("ResourceBuilder::name_as_pcstr() File should not have invalid Unicode: {}", <<"f",FFFD,".","b","m","p">>)
    /\ call.result = "None"

-----------------------------------------------------------------------------
(* C12 *)

KindOfExtension(e) ==
    CASE e = <<"i","c","o">> -> IMAGE_ICON
      [] e = <<"c","u","r">> -> IMAGE_CURSOR
      [] e = <<"b","m","p">> -> IMAGE_BITMAP

\* the diagnostics emitted before name_as_pcstr returned
ResolverDiagnostics ==
    {i \in Positions("elogln") \cup Positions("wlogln") :
        \A j \in Positions("return Some") \cup Positions("return None") : i < j}

\* C12: when load resolves a File (non-empty, NUL-terminated, extension
\* ico/cur/bmp, no U+FFFD, existing file), LoadImageA is passed the kind
\* Icon for ico, Cursor for cur and Bitmap for bmp, flags that include
\* LR_LOADFROMFILE and the file's text, and the resolver emits no diagnostic.
C12_FileKindAndFlag ==
    LET t == call.before.name.text
        ext == Extension(TrimEndNul(t))
    IN  Called("load") /\ call.before.name.variant = "File" /\ ResolutionSucceeded =>
          /\ ~IsEmpty(t) /\ EndsWithNul(t) /\ ext.some /\ ext.text \in FileExtensions
          /\ ~Contains(t, <<FFFD>>) /\ Ran("metadata Ok")
          /\ Cardinality(Positions("LoadImageA")) = 1
          /\ \A k \in Positions("LoadImageA") :
                /\ call.trace[k].args.type = KindOfExtension(ext.text)
                /\ LR_LOADFROMFILE \in call.trace[k].args.flags
                /\ call.trace[k].args.id = TextPtr(t)
          /\ ResolverDiagnostics = {}

\* a cursor file loaded on a builder whose kind was Bitmap and whose flags
\* did not hold LR_LOADFROMFILE
C12_Witness ==
    /\ Called("load")
    /\ call.before.name = File(<<"t",BSL,"s",".","c","u","r",NUL>>)
    /\ call.before.resource_type = IMAGE_BITMAP
    /\ LR_LOADFROMFILE \notin call.before.flags
    /\ call.result = "Some"
    /\ \E k \in Positions("LoadImageA") :
          call.trace[k].args.type = IMAGE_CURSOR /\ LR_LOADFROMFILE \in call.trace[k].args.flags

-----------------------------------------------------------------------------
(* C13 *)

\* the flags a caller sets through use_sysdefault .. use_vga
CallerFlags ==
    {LR_DEFAULTSIZE, LR_CREATEDIBSECTION, LR_LOADTRANSPARENT,
     LR_LOADMAP3DCOLORS, LR_MONOCHROME, LR_VGACOLOR}

\* C13: in every invocation of LoadImageA made by load, LR_LOADFROMFILE is
\* in the passed flags if and only if the name is a File; for a Name on a
\* builder on which no flag setter was called, neither LR_LOADFROMFILE nor
\* LR_SHARED is passed; whatever set_name and terminal calls came before.
C13_LoadFromFileIffFile ==
    Called("load") =>
        \A k \in Positions("LoadImageA") :
            /\ LR_LOADFROMFILE \in call.trace[k].args.flags
                  <=> call.before.name.variant = "File"
            /\ call.before.name.variant = "Name" /\ call.before.flags \cap CallerFlags = {}
                  => /\ LR_LOADFROMFILE \notin call.trace[k].args.flags
                     /\ LR_SHARED \notin call.trace[k].args.flags

-----------------------------------------------------------------------------
(* C14 *)

\* the call was made on a new builder given only a Name and dimensions
FreshNameLoad ==
    /\ Called("load")
    /\ call.before.name.variant = "Name"
    /\ call.before = [new(threshold) EXCEPT !.name = call.before.name,
                                            !.dimensions = call.before.dimensions]

\* the messages of the warnings of the call, in order
Warnings ==
    [i \in 1..Cardinality(Positions("wlogln")) |->
        call.trace[CHOOSE k \in Positions("wlogln") :
                      Cardinality({j \in Positions("wlogln") : j <= k}) = i].msg]

OriginalWidth == Msg("ResourceBuilder::validator() The original image {} will be used", <<"w","i","d","t","h">>)
OriginalHeight == Msg("ResourceBuilder::validator() The original image {} will be used", <<"h","e","i","g","h","t">>)

\* C14 as claimed: a successful load on a new builder with a valid Name, no
\* flag setter called and dimensions left at (0,0) emits no diagnostic,
\* neither error nor warning, to the sink.
C14_FreshSuccessIsSilent ==
    FreshNameLoad /\ call.before.dimensions = <<0, 0>> /\ call.result = "Some" =>
        call.written = <<>>

\* C14 as amended: a successful load on a new builder with a valid Name and
\* no flag setter called emits no error; with dimensions left at (0,0) it
\* emits the two warnings 'original image width' and 'original image
\* height', which reach the sink when the threshold is 2 or more; it is
\* silent when both dimensions were set to nonzero values.
C14_FreshSuccessWarnsOfDimensions ==
    FreshNameLoad /\ call.result = "Some" =>
        /\ ErrorCount = 0
        /\ call.before.dimensions = <<0, 0>> =>
              /\ Warnings = <<OriginalWidth, OriginalHeight>>
              /\ call.written = IF threshold >= 2
                                THEN <<Line("[WARNING]", OriginalWidth, TRUE),
                                       Line("[WARNING]", OriginalHeight, TRUE)>>
                                ELSE <<>>
        /\ call.before.dimensions[1] # 0 /\ call.before.dimensions[2] # 0 =>
              WarningCount = 0 /\ call.written = <<>>

\* the first load of a new builder, Warning threshold: two lines are written
C14_Witness ==
    /\ FreshNameLoad
    /\ call.before.name = Name(<<"T","B","M","P",NUL>>)
    /\ call.before.dimensions = <<0, 0>>
    /\ threshold = 2
    /\ call.result = "Some"
    /\ Len(call.written) = 2

-----------------------------------------------------------------------------
(* C15 *)

DimensionNames == <<(<<"w","i","d","t","h">>), (<<"h","e","i","g","h","t">>)>>

\* the warnings of the call about width (d = 1) or height (d = 2)
DimensionWarnings(d) ==
    {i \in Positions("wlogln") :
        /\ call.trace[i].msg.arg = DimensionNames[d]
        /\ call.trace[i].msg.fmt \in
              {"ResourceBuilder::validator() The default system {} will be used",
               "ResourceBuilder::validator() The original image {} will be used"}}

\* C15: for width and for height separately, the validator warns about the
\* dimension if and only if it is 0, once, with 'default system ...' when
\* LR_DEFAULTSIZE is set and 'original image ...' otherwise; a nonzero
\* dimension, negative included, is not warned about, whatever the other is.
C15_DimensionWarnings ==
    Called("load") /\ Ran("validator") =>
        \A d \in {1, 2} :
            /\ dimensions[d] = 0 =>
                  /\ Cardinality(DimensionWarnings(d)) = 1
                  /\ \A i \in DimensionWarnings(d) :
                        call.trace[i].msg.fmt =
                            IF LR_DEFAULTSIZE \in flags
                            THEN "ResourceBuilder::validator() The default system {} will be used"
                            ELSE "ResourceBuilder::validator() The original image {} will be used"
            /\ dimensions[d] # 0 => DimensionWarnings(d) = {}

\* a negative width and an unset height under LR_DEFAULTSIZE: the one
\* warning is 'default system height'
C15_Witness ==
    /\ Called("load")
    /\ Ran("validator")
    /\ dimensions = <<-1, 0>>
    /\ LR_DEFAULTSIZE \in flags
    /\ DimensionWarnings(1) = {}
    /\ Cardinality(DimensionWarnings(2)) = 1

-----------------------------------------------------------------------------
(* C16 *)

DibCursor == Msg("ResourceBuilder::validator() DIB section bitmap is no-op with resource type: 'IMAGE_CURSOR'", <<>>)
DibIcon == Msg("ResourceBuilder::validator() DIB section bitmap is no-op with resource type: 'IMAGE_ICON'", <<>>)

DibWarnings == {i \in Positions("wlogln") : call.trace[i].msg \in {DibCursor, DibIcon}}

\* C16: the validator emits the 'DIB section bitmap is no-op with resource
\* type' warning if and only if LR_CREATEDIBSECTION is set and the resolved
\* kind is Cursor or Icon, once, naming that kind; for kind Bitmap, or
\* without LR_CREATEDIBSECTION, there is no such warning.
C16_DibWarning ==
    Called("load") /\ Ran("validator") =>
        /\ DibWarnings # {} <=>
              LR_CREATEDIBSECTION \in flags /\ resource_type \in {IMAGE_CURSOR, IMAGE_ICON}
        /\ Cardinality(DibWarnings) <= 1
        /\ \A i \in DibWarnings :
              call.trace[i].msg = IF resource_type = IMAGE_CURSOR THEN DibCursor ELSE DibIcon

\* an icon file loaded with LR_CREATEDIBSECTION on a builder whose kind was
\* Bitmap: the warning names the resolved kind
C16_Witness ==
    /\ Called("load")
    /\ call.before.resource_type = IMAGE_BITMAP
    /\ LR_CREATEDIBSECTION \in flags
    /\ resource_type = IMAGE_ICON
    /\ \E i \in DibWarnings : call.trace[i].msg = DibIcon

-----------------------------------------------------------------------------
(* C17 *)

ColorNoOp == Msg("ResourceBuilder::validator() 3D and VGA color are no-op when mono is used", <<>>)

ColorWarnings == {i \in Positions("wlogln") : call.trace[i].msg = ColorNoOp}

\* C17: the validator emits the '3D and VGA color are no-op when mono is
\* used' warning, exactly once, if and only if LR_MONOCHROME is set and at
\* least one of LR_LOADMAP3DCOLORS and LR_VGACOLOR is set; the color flags
\* without LR_MONOCHROME, and LR_MONOCHROME alone, give no such warning.
C17_ColorWarning ==
    Called("load") /\ Ran("validator") =>
        IF LR_MONOCHROME \in flags /\ (LR_LOADMAP3DCOLORS \in flags \/ LR_VGACOLOR \in flags)
        THEN Cardinality(ColorWarnings) = 1
        ELSE ColorWarnings = {}

\* the three color flags together: one warning
C17_Witness ==
    /\ Called("load")
    /\ {LR_MONOCHROME, LR_LOADMAP3DCOLORS, LR_VGACOLOR} \subseteq flags
    /\ Cardinality(ColorWarnings) = 1

-----------------------------------------------------------------------------
(* C18 *)

\* every event of the first set precedes every event of the second
Precede(S, T) == \A i \in S, j \in T : i < j

LoadFailures ==
    {i \in Positions("elogln") :
        call.trace[i].msg = Msg("ResourceBuilder::load() Failed to create a handle for the resource", <<>>)}

\* C18: the warnings of one validator run come in the order width, height,
\* DIB/kind, color; each warning whose condition holds is emitted whatever
\* the other checks found; all of them precede the invocation of LoadImageA
\* and the loader-failure error of the same load.
C18_WarningOrder ==
    Called("load") /\ Ran("validator") =>
        /\ Positions("wlogln") =
              DimensionWarnings(1) \cup DimensionWarnings(2) \cup DibWarnings \cup ColorWarnings
        /\ Precede(DimensionWarnings(1), DimensionWarnings(2))
        /\ Precede(DimensionWarnings(1) \cup DimensionWarnings(2), DibWarnings)
        /\ Precede(DimensionWarnings(1) \cup DimensionWarnings(2) \cup DibWarnings, ColorWarnings)
        /\ DimensionWarnings(1) # {} <=> dimensions[1] = 0
        /\ DimensionWarnings(2) # {} <=> dimensions[2] = 0
        /\ DibWarnings # {} <=>
              LR_CREATEDIBSECTION \in flags /\ resource_type \in {IMAGE_CURSOR, IMAGE_ICON}
        /\ ColorWarnings # {} <=>
              LR_MONOCHROME \in flags /\ (LR_LOADMAP3DCOLORS \in flags \/ LR_VGACOLOR \in flags)
        /\ Precede(Positions("validator"), Positions("wlogln"))
        /\ Precede(Positions("wlogln"), Positions("LoadImageA"))
        /\ Precede(Positions("LoadImageA"), LoadFailures)
        /\ call.result = "None" => LoadFailures # {}

\* the four warnings, then LoadImageA, then the error of its failure
C18_Witness ==
    /\ Called("load")
    /\ DimensionWarnings(1) # {} /\ DimensionWarnings(2) # {}
    /\ DibWarnings # {} /\ ColorWarnings # {}
    /\ Ran("LoadImageA")
    /\ LoadFailures # {}

-----------------------------------------------------------------------------
(* C19 *)

\* what the call passed to LoadImageA
LoadImageCalls == {call.trace[k].args : k \in Positions("LoadImageA")}

\* C19: when load is called twice in a row with the same name and both
\* calls resolve it, the second call infers the same kind, passes the same
\* kind, flags, process handle and identifier to LoadImageA and emits the
\* same sequence of validator warnings as the first.
C19_LoadTwiceSame ==
    [][ /\ Called("load") /\ ResolutionSucceeded
        /\ Called("load")' /\ ResolutionSucceeded'
        => /\ resource_type' = resource_type
           /\ LoadImageCalls' = LoadImageCalls
           /\ Cardinality(LoadImageCalls) = 1
           /\ Warnings' = Warnings ]_vars

\* set_name(WinOBM), load, load: the second load began with the flags and
\* the handle the first had left
C19_Witness ==
    /\ Called("load")
    /\ ops = 3
    /\ call.before.name = WinOBM(32640)
    /\ LR_SHARED \in call.before.flags
    /\ call.before.instance = NullInstance
    /\ \E a \in LoadImageCalls : LR_SHARED \in a.flags /\ a.instance = NullInstance

-----------------------------------------------------------------------------
(* C20 *)

\* Error = 1, Warn = 2, Info = 3
Level(op) ==
    CASE op \in {"elog", "elogln"} -> 1
      [] op \in {"wlog", "wlogln"} -> 2
      [] op \in {"log", "logln"} -> 3

Tag(op) ==
    CASE op \in {"elog", "elogln"} -> "[ERROR]"
      [] op \in {"wlog", "wlogln"} -> "[WARNING]"
      [] op \in {"log", "logln"} -> "[INFO]"

LoggerOps == {"elog", "elogln", "wlog", "wlogln", "log", "logln"}

\* C20: for every threshold t and every level L, a message logged at level
\* L is written to the output if and only if L <= t, and a written message
\* carries the tag of its level.
C20_WrittenIffLevelWithinThreshold ==
    call.op \in LoggerOps =>
        /\ Len(call.written) = (IF Level(call.op) <= threshold THEN 1 ELSE 0)
        /\ \A i \in 1..Len(call.written) :
              /\ call.written[i].tag = Tag(call.op)
              /\ call.written[i].msg = call.trace[1].msg

-----------------------------------------------------------------------------
(* C21 *)

\* the flag setters, by the flag each is for
FlagSetter(f, self) ==
    CASE f = LR_DEFAULTSIZE -> use_sysdefault(self)
      [] f = LR_CREATEDIBSECTION -> use_dib(self)
      [] f = LR_LOADTRANSPARENT -> use_transparent(self)
      [] f = LR_LOADMAP3DCOLORS -> use_3d(self)
      [] f = LR_MONOCHROME -> use_mono(self)
      [] f = LR_VGACOLOR -> use_vga(self)

FlagSetterStep(f) ==
    CASE f = LR_DEFAULTSIZE -> UseSysdefault
      [] f = LR_CREATEDIBSECTION -> UseDib
      [] f = LR_LOADTRANSPARENT -> UseTransparent
      [] f = LR_LOADMAP3DCOLORS -> Use3d
      [] f = LR_MONOCHROME -> UseMono
      [] f = LR_VGACOLOR -> UseVga

\* on the builder as it is: a setter sets its flag and changes nothing
\* else, applied twice it is the setter applied once, and two setters give
\* the same builder in either order; set_dimensions replaces the dimensions
SettersFrame ==
    LET self == Self
    IN  /\ \A f \in CallerFlags :
              LET once == FlagSetter(f, self)
              IN  /\ once = [self EXCEPT !.flags = self.flags \cup {f}]
                  /\ FlagSetter(f, once) = once
                  /\ \A g \in CallerFlags :
                        FlagSetter(g, once) = FlagSetter(f, FlagSetter(g, self))
        /\ \A d \in Dimensions :
              set_dimensions(self, d[1], d[2]) = [self EXCEPT !.dimensions = d]

\* a step of a setter changes what the setter is for and nothing else
SetterSteps ==
    /\ \A f \in CallerFlags :
          FlagSetterStep(f) =>
              /\ flags' = flags \cup {f}
              /\ UNCHANGED <<dimensions, name, resource_type, instance>>
    /\ \A d \in Dimensions :
          Configure(set_dimensions(Self, d[1], d[2])) =>
              /\ dimensions' = d
              /\ UNCHANGED <<flags, name, resource_type, instance>>

\* C21: each of use_sysdefault, use_dib, use_transparent, use_3d, use_mono
\* and use_vga sets its own flag and leaves the other flags, the dimensions,
\* the name, the kind and the process handle as they were; a setter applied
\* twice equals the setter applied once and the flags do not depend on the
\* order of the setters; set_dimensions(w, h) makes the dimensions (w, h)
\* and changes nothing else.
C21_SettersFrame == []SettersFrame /\ [][SetterSteps]_vars

\* four setter calls that left two flags and one pair of dimensions: a
\* setter was called on a builder that already held what it sets
C21_Witness ==
    /\ ops = 4
    /\ flags = {LR_MONOCHROME, LR_VGACOLOR}
    /\ dimensions = <<0, 10>>
    /\ name = new(threshold).name
    /\ instance = ThisInstance

-----------------------------------------------------------------------------
(* C22 *)

DcStyles == {CS_CLASSDC, CS_OWNDC, CS_PARENTDC}

\* C22: after any sequence of create_single_dc, create_unique_dc and
\* create_cache_dc calls, interleaved with any other setters, at most one
\* of CS_CLASSDC, CS_OWNDC, CS_PARENTDC is set, and it is the one the first
\* of those calls asked for; a later create_*_dc call leaves the style as
\* it is.
C22_DeviceContextExclusive ==
    /\ Cardinality(manager.style \cap DcStyles) <= 1
    /\ manager.style \cap DcStyles =
          IF dc_requests = <<>> THEN {} ELSE {dc_requests[1]}
    /\ dc_requests # <<>> =>
          /\ create_single_dc(manager).style = manager.style
          /\ create_unique_dc(manager).style = manager.style
          /\ create_cache_dc(manager).style = manager.style

\* create_cache_dc, then create_single_dc and create_unique_dc, among other
\* style setters: the style holds CS_PARENTDC alone of the three
C22_Witness ==
    /\ dc_requests = <<CS_PARENTDC, CS_CLASSDC, CS_OWNDC>>
    /\ manager.style = {CS_PARENTDC, CS_DBLCLKS}
-----------------------------------------------------------------------------
(* C23 *)

BuildEvents(ev) == {i \in 1..Len(call.trace) : call.trace[i].ev = ev}

AlreadyExists ==
    /\ call.result = "panic"
    /\ call.trace[Len(call.trace)] =
          Event("panic", Msg("[Error] Window Manager '{}' already exists",
                             call.before.classname), NoArgs)

\* an earlier build, which returned a WindowManager, had the class name and
\* the process handle of this one
BuiltEarlier ==
    [classname |-> call.before.classname, instance |-> call.before.instance]
        \in call.built

\* the two assertions before the registration pass
ReachesRegistration ==
    /\ ~IsEmpty(call.before.classname)
    /\ ~(call.before.menuname.some /\ IsEmpty(call.before.menuname.text))

\* what build does whatever the memory after the class name holds
BuildFrame ==
    call.op = "build" =>
        /\ manager = call.before
        /\ call.result \in {"WindowManager", "panic"}
        /\ IF ReachesRegistration
           THEN /\ Cardinality(BuildEvents("RegisterClassA")) = 1
                /\ classes = call.registered => AlreadyExists
                /\ call.result = "WindowManager" =>
                      /\ classes # call.registered
                      /\ call.trace[Len(call.trace)] =
                            Event("WindowManager::new",
                                  Msg("", call.before.classname), NoArgs)
           ELSE /\ call.result = "panic"
                /\ BuildEvents("RegisterClassA") = {}
                /\ classes = call.registered

\* C23: build panics without registering a class when the class name is
\* empty or the menu name was set to ""; otherwise it attempts one
\* registration, panics with 'already exists' when the registration is
\* refused, in particular when the same class name was registered by an
\* earlier build, and on success returns a WindowManager carrying the class
\* name; the fields of the builder are unchanged.
C23_BuildContract ==
    /\ BuildFrame
    /\ call.op = "build" /\ ReachesRegistration /\ BuiltEarlier => AlreadyExists

-----------------------------------------------------------------------------
(* C24 *)

NumericVariants == {"WinOBM", "WinOIC", "WinIDI", "WinIDC", "WinOCR"}

KindOfVariant(v) ==
    CASE v = "WinOBM" -> IMAGE_BITMAP
      [] v \in {"WinOIC", "WinIDI"} -> IMAGE_ICON
      [] v \in {"WinIDC", "WinOCR"} -> IMAGE_CURSOR

\* the call resolved a numeric name whose id name_as_pcstr does not refuse
ResolvedNumeric ==
    /\ Terminal /\ Ran("name_as_pcstr")
    /\ call.before.name.variant \in NumericVariants
    /\ ~(call.before.name.variant = "WinOCR" /\ call.before.name.id \in ReservedCursorIds)

\* C24: resolving WinOBM, WinOIC, WinIDI or WinIDC with any id, or WinOCR
\* with an id that is not refused, succeeds without a diagnostic: the kind
\* becomes the kind of the variant, LR_SHARED is set, the process handle
\* becomes null, the integer id is what is returned and handed to the
\* platform, and the other flags, the dimensions and the name are unchanged.
C24_NumericResolves ==
    ResolvedNumeric =>
        /\ ResolutionSucceeded /\ ~ResolutionFailed
        /\ ResolverDiagnostics = {}
        /\ resource_type = KindOfVariant(call.before.name.variant)
        /\ flags = call.before.flags \cup {LR_SHARED}
        /\ instance = NullInstance
        /\ dimensions = call.before.dimensions
        /\ name = call.before.name
        /\ \E ev \in Loaders :
              /\ Cardinality(Positions(ev)) = 1
              /\ \A i \in Positions(ev) :
                    call.trace[i].args.id = IntPtr(call.before.name.id)

\* a stock icon loaded through load on a builder with a caller flag, the
\* kind Bitmap and the handle of the current process
C24_Witness ==
    /\ Called("load")
    /\ call.before.name = WinOIC(32640)
    /\ call.before.flags = {LR_MONOCHROME}
    /\ call.before.resource_type = IMAGE_BITMAP
    /\ call.before.instance = ThisInstance
    /\ flags = {LR_MONOCHROME, LR_SHARED}
    /\ resource_type = IMAGE_ICON
    /\ Forwarded(32640)

-----------------------------------------------------------------------------
(* C25 *)

\* the ids the error message of the WinOCR arm names: OCR_NO, OCR_SIZE and
\* OCR_ICOCUR
NamedInMessage == {32648, 32640, 32647}

\* C25: a WinOCR id fails resolution, with the error "OCR_NO, OCR_SIZE, and
\* OCR_ICOCUR are no-op with ResourceName::WinOCR", exactly when it is one
\* of the ids that message names, OCR_NO (32648), OCR_SIZE (32640) and
\* OCR_ICOCUR (32647); every other WinOCR id resolves.
C25_RejectedAreThoseNamed ==
    Terminal /\ Ran("name_as_pcstr") /\ call.before.name.variant = "WinOCR" =>
        /\ ResolutionFailed <=> call.before.name.id \in NamedInMessage
        /\ ResolutionSucceeded <=> call.before.name.id \notin NamedInMessage
        /\ ResolutionFailed =>
              /\ Cardinality(ResolverDiagnostics) = 1
              /\ \A i \in ResolverDiagnostics :
                    call.trace[i].msg.fmt = "ResourceBuilder::name_as_pcstr() OCR_NO, OCR_SIZE, and OCR_ICOCUR are no-op with ResourceName::WinOCR"

-----------------------------------------------------------------------------
(* C26 *)

\* load_icon or load_cursor was called with a variant it accepts
HandleCall ==
    \/ Called("load_icon") /\ call.before.name.variant \in {"WinIDI", "WinOIC"}
    \/ Called("load_cursor") /\ call.before.name.variant \in {"WinIDC", "WinOCR"}

Primitive == IF Called("load_icon") THEN "LoadIconA" ELSE "LoadCursorA"

HandleFailure ==
    IF Called("load_icon")
    THEN "ResourceBuilder::load_icon() Failed to create a handle for the icon"
    ELSE "ResourceBuilder::load_cursor() Failed to create a handle for the cursor"

\* C26: on the variants they accept, load_icon and load_cursor invoke
\* LoadIconA / LoadCursorA exactly once whether or not the name resolved,
\* with the id the resolver returned or a null identifier when it returned
\* none, and with the process handle the resolver left; when the primitive
\* answers no handle the call returns nothing and its last diagnostic is
\* 'Failed to create a handle for the icon' / 'for the cursor'; the
\* validator does not run and LoadImageA is not invoked.
C26_HandleLoadsTolerateFailure ==
    HandleCall =>
        /\ Cardinality(Positions(Primitive)) = 1
        /\ \A ev \in Loaders \ {Primitive} : ~Ran(ev)
        /\ ~Ran("validator")
        /\ \A k \in Positions(Primitive) :
              /\ call.trace[k].args.id =
                    IF ResolutionFailed THEN NullPtr ELSE IntPtr(call.before.name.id)
              /\ call.trace[k].args.instance = instance
              /\ instance = NullInstance
              /\ \A j \in Positions("return Some") \cup Positions("return None") : j < k
        /\ Cardinality(Positions("return Some") \cup Positions("return None")) = 1
        /\ call.result = "None" <=>
              /\ call.trace[Len(call.trace)].ev = "elogln"
              /\ call.trace[Len(call.trace)].msg.fmt = HandleFailure
        /\ call.result \in {"Some", "None"}

\* load_cursor with a WinOCR id the resolver refuses: LoadCursorA was
\* handed the null identifier and answered no handle
C26_Witness ==
    /\ Called("load_cursor")
    /\ call.before.name = WinOCR(32647)
    /\ call.before.instance = ThisInstance
    /\ ResolutionFailed
    /\ \E k \in Positions("LoadCursorA") :
          call.trace[k].args.id = NullPtr /\ call.trace[k].args.instance = NullInstance
    /\ call.result = "None"
    /\ ErrorCount = 2

-----------------------------------------------------------------------------
(* C27 *)

TerminalOps == {"load", "load_icon", "load_cursor"}

\* what a step does to the process handle
StickySteps ==
    /\ instance = NullInstance /\ instance' # NullInstance => SetInstance
    /\ instance' # instance =>
          \/ SetInstance
          \/ /\ call'.op \in TerminalOps
             /\ call'.before.name.variant \in NumericVariants
             /\ instance' = NullInstance
    /\ call'.op \in TerminalOps /\ call'.before.name.variant \in NumericVariants
       /\ (\E i \in 1..Len(call'.trace) : call'.trace[i].ev = "name_as_pcstr")
       => instance' = NullInstance
    /\ call'.op \in TerminalOps /\ instance = NullInstance =>
          \A i \in 1..Len(call'.trace) :
              call'.trace[i].ev \in Loaders => call'.trace[i].args.instance = NullInstance

\* C27: a terminal call that resolves a WinOBM, WinOIC, WinOCR, WinIDI or
\* WinIDC name leaves the process handle null; once it is null it stays
\* null through every step but set_instance, and every later terminal call,
\* load of a Name or a File included, hands the platform the null handle;
\* no terminal call changes the handle to anything but null.
C27_NullInstanceSticky == [][StickySteps]_vars

\* a Name loaded on a builder whose handle an earlier numeric name had made
\* null: LoadImageA was handed the null handle
C27_Witness ==
    /\ Called("load")
    /\ call.before.name.variant = "Name"
    /\ call.before.instance = NullInstance
    /\ instance = NullInstance
    /\ call.result = "Some"
    /\ \E k \in Positions("LoadImageA") : call.trace[k].args.instance = NullInstance

-----------------------------------------------------------------------------
(* C28 *)

\* C28: after a load whose File failed resolution, LR_LOADFROMFILE is set
\* whatever check failed and the other flags are as before; the kind is the
\* kind of the extension when the extension is ico, cur or bmp (the path
\* then failed the U+FFFD or the existence check) and is unchanged when the
\* text is empty, is not NUL-terminated, has no extension or has another
\* extension; the dimensions, the name and the process handle are unchanged.
C28_FailedFileLeavesTraces ==
    LET t == call.before.name.text
        ext == Extension(TrimEndNul(t))
        typed == ~IsEmpty(t) /\ EndsWithNul(t) /\ ext.some /\ ext.text \in FileExtensions
    IN  Called("load") /\ call.before.name.variant = "File" /\ ResolutionFailed =>
          /\ flags = call.before.flags \cup {LR_LOADFROMFILE}
          /\ typed => resource_type = KindOfExtension(ext.text)
          /\ ~typed => resource_type = call.before.resource_type
          /\ dimensions = call.before.dimensions
          /\ name = call.before.name
          /\ instance = call.before.instance

\* a bitmap path with U+FFFD loaded on a builder whose kind an earlier call
\* had made Icon: the load failed, the kind is Bitmap and LR_LOADFROMFILE
\* is set
C28_Witness ==
    /\ Called("load")
    /\ call.before.name = File(<<"f",FFFD,".","b","m","p",NUL>>)
    /\ call.before.resource_type = IMAGE_ICON
    /\ LR_LOADFROMFILE \notin call.before.flags
    /\ ResolutionFailed
    /\ resource_type = IMAGE_BITMAP
    /\ LR_LOADFROMFILE \in flags

-----------------------------------------------------------------------------
(* C29 *)

\* years on both sides of each rule of the Gregorian calendar, and the leap
\* years among them
Years == {1900, 1970, 1972, 2000, 2001, 2004, 2020, 2021, 2100, 2400}
LeapYears == {1972, 2000, 2004, 2020, 2400}

\* the days of the months of a year that is not a leap year
MonthDays == <<31, 28, 31, 30, 31, 30, 31, 31, 30, 31, 30, 31>>

CalendarFunctions ==
    \A y \in Years \cup (IF Called("now_utc") THEN {call.date.year} ELSE {}) :
        /\ is_leap_year(y) <=> (y % 4 = 0 /\ (y % 100 # 0 \/ y % 400 = 0))
        /\ y \in Years => (is_leap_year(y) <=> y \in LeapYears)
        /\ \A m \in 1..12 :
              days_in_month(y, m) =
                  MonthDays[m] + (IF m = 2 /\ is_leap_year(y) THEN 1 ELSE 0)

\* what now_utc formats is a date and a time of day, and its loops ended
\* after one round for each year since 1970 and each month of the year
DateInRange ==
    Called("now_utc") =>
        LET d == call.date
        IN  /\ d.year >= 1970
            /\ d.month \in 1..12
            /\ d.day \in 1..days_in_month(d.year, d.month)
            /\ d.hour \in 0..23
            /\ d.minute \in 0..59
            /\ d.second \in 0..59
            /\ d.millis \in 0..999
            /\ d.asked = [i \in 1..d.month |-> i]
            /\ d.text.arg = <<d.year, d.month, d.day, d.hour, d.minute, d.second, d.millis>>

\* C29: is_leap_year(y) is y % 4 = 0 and (y % 100 # 0 or y % 400 = 0);
\* days_in_month answers the Gregorian length of each month 1..12; and for
\* the seconds the clock reads, the year loop and the month loop of now_utc
\* end with a month in 1..12, a day in 1..days_in_month(year, month), an
\* hour in 0..23 and a minute and a second in 0..59; days_in_month is never
\* asked for a month outside 1..12.
C29_CalendarInRange == CalendarFunctions /\ DateInRange

\* now_utc at the last second of 29 February 2000
C29_Witness ==
    /\ Called("now_utc")
    /\ call.total_seconds = 951868799
    /\ call.date.year = 2000 /\ call.date.month = 2 /\ call.date.day = 29
    /\ call.date.hour = 23 /\ call.date.minute = 59 /\ call.date.second = 59
    /\ call.date.millis = 999

=============================================================================
